---- MODULE Spec2Model ----
(***************************************************************************)
(* A model of the universe builder of CX16_Space_Game.                     *)
(*                                                                         *)
(*   SpecCatalog : Phase 0, build_star_database.py                         *)
(*                 main = load_hyg_csv ; select_stars_within_radius ;      *)
(*                        project_to_grid ; write_star_csv ;               *)
(*                        write_ascii_map                                  *)
(*   SpecCell    : the same main on rows that meet in one grid cell        *)
(*   SpecLoader  : load_hyg_csv on raw rows of the input file              *)
(*   SpecObjects : Phase 1, generate_objects_for_system, its draws free    *)
(*   SpecAttributes : compute_attributes for any digest                    *)
(*   SpecSystems : calls of generate_objects_for_system, each with its     *)
(*                 own seeded generator, interleaved                       *)
(*   SpecGenMain : generate_system_objects.main                            *)
(*   SpecRuns    : a run of either main                                    *)
(*   SpecDecorate : compute_attributes, called alone or for the objects    *)
(*                 of a system                                             *)
(*   SpecArtifacts : Phase 2, phase_2_alien_artifacts.py: a call of        *)
(*                 choose_artifact_type, or two runs of main on one file   *)
(*                                                                         *)
(* Distances and positions are light-years, kept as integers; the scale    *)
(* (light-years per grid cell) is a rational num/den.                      *)
(***************************************************************************)
EXTENDS Integers, Sequences, FiniteSets, TLC

VARIABLES
    cpc,        \* position of build_star_database.main
    stars_all,  \* the list load_hyg_csv returned
    radius_ly,  \* args.radius_ly
    max_stars,  \* args.max_stars
    scale,      \* args.scale, [num, den]
    stars,      \* main's local `stars`
    csv_rows,   \* the rows write_star_csv wrote
    ascii_map,  \* the map write_ascii_map wrote
    outputs     \* the output files written so far

catVars == <<cpc, stars_all, radius_ly, max_stars, scale, stars, csv_rows,
             ascii_map, outputs>>

VARIABLES
    gpc,             \* position of generate_objects_for_system
    system_id,       \* its arguments
    system_name,
    spect,
    global_seed,
    max_primaries,
    objects,         \* its local `objects`, the list it returns
    primary_indices, \* its local `primary_indices`
    primary_budget,  \* its local `primary_budget`
    parent_pos,      \* the place of the moon loop in primary_indices
    moons_left       \* moons still to make for the parent at parent_pos

genArgs == <<system_id, system_name, spect, global_seed, max_primaries>>

genVars == <<gpc, genArgs, objects, primary_indices, primary_budget,
             parent_pos, moons_left>>

VARIABLES
    apc,          \* position of one call of compute_attributes
    attr_args,    \* its arguments
    attr_digest,  \* h_bytes[:4] of its key
    attr_result   \* what it returned

attrVars == <<apc, attr_args, attr_digest, attr_result>>

VARIABLES
    calls,  \* the calls of generate_objects_for_system under way, one per
            \* system of the catalog: arguments, position and locals
    rngs    \* the random.Random objects that exist: seed and draws made

sysVars == <<calls, rngs>>

VARIABLES
    lpc,       \* position of one call of load_hyg_csv
    raw_rows,  \* the rows of its input file
    loaded     \* the list it returned

loadVars == <<lpc, raw_rows, loaded>>

VARIABLES
    mpc,          \* position of generate_system_objects.main
    fieldnames,   \* reader.fieldnames of the input star CSV
    star_rows,    \* the rows of the input star CSV
    gen_stars,    \* main's local `stars`
    all_objects,  \* main's local `all_objects`
    out_rows      \* the output CSV: not opened, or the rows written

mainVars == <<mpc, fieldnames, star_rows, gen_stars, all_objects, out_rows>>

VARIABLES
    tpc,            \* position of one call of choose_artifact_type
    h_extra,        \* its argument, as <<high 16 bits, low 16 bits>>
    art_type,       \* the code it returned
    object_file,    \* the input system_objects.csv of phase 2
    artifact_runs   \* two runs of phase_2_alien_artifacts.main on that file:
                    \* position, args.artifact_rate, args.seed, rows written

artVars == <<tpc, h_extra, art_type, object_file, artifact_runs>>

restVars == <<sysVars, loadVars, mainVars, artVars>>

vars == <<catVars, genVars, attrVars, restVars>>

(***************************************************************************)
(* Bounds of the model                                                     *)
(***************************************************************************)
\* rows of the input catalog
MaxRows == 3
\* the largest --max-objects-per-system tried
MaxPrimaryCap == 2
\* systems of a catalog that are generated side by side
MaxSystems == 2

(***************************************************************************)
(* Generic helpers                                                         *)
(***************************************************************************)
Range(s) == {s[i] : i \in 1..Len(s)}

\* Python's s[a:b] for 0 <= a, 0 <= b (0-based, b exclusive, clipped)
Slice(s, a, b) ==
    LET hi == IF b < Len(s) THEN b ELSE Len(s)
    IN  IF a >= hi THEN <<>> ELSE SubSeq(s, a + 1, hi)

(***************************************************************************)
(* Stars, as load_hyg_csv builds them                                      *)
(***************************************************************************)
\* a key that project_to_grid has not set yet: s.get("grid_x", "")
NoGrid == -1

\* a lum / mag column: empty, not a number, or a number
NoNum == [k |-> "empty", v |-> 0]
BadNum == [k |-> "bad", v |-> 0]
Num(n) == [k |-> "num", v |-> n]

\* the dict appended by load_hyg_csv; is_sol, grid_x and grid_y are the keys
\* that later stages add (absent = FALSE / NoGrid)
MkStar(id, proper, dist, x, y, lum, mag) ==
    [id |-> id, proper |-> proper, dist_ly |-> dist, x_ly |-> x, y_ly |-> y,
     lum |-> lum, mag |-> mag,
     is_sol |-> FALSE, grid_x |-> NoGrid, grid_y |-> NoGrid]

(***************************************************************************)
(* select_stars_within_radius                                              *)
(***************************************************************************)
\* a sort that is not stable: x goes in front of the elements with its key
RECURSIVE InsertByDistUnstable(_, _)
InsertByDistUnstable(sorted, x) ==
    IF sorted = <<>> THEN <<x>>
    ELSE IF Head(sorted).dist_ly < x.dist_ly
         THEN <<Head(sorted)>> \o InsertByDistUnstable(Tail(sorted), x)
         ELSE <<x>> \o sorted

\* list.sort(key=dist_ly): stable, ascending.  Insert x behind every element
\* whose key is <= its own.
RECURSIVE InsertByDist(_, _)
InsertByDist(sorted, x) ==
    IF sorted = <<>> THEN <<x>>
    ELSE IF Head(sorted).dist_ly <= x.dist_ly
         THEN <<Head(sorted)>> \o InsertByDist(Tail(sorted), x)
         ELSE <<x>> \o sorted

RECURSIVE SortByDistFrom(_, _)
SortByDistFrom(acc, s) ==
    IF s = <<>> THEN acc
    ELSE SortByDistFrom(InsertByDist(acc, Head(s)), Tail(s))

SortByDist(s) == SortByDistFrom(<<>>, s)

WithinRadius(s, radius) ==
    LET InRadius(st) == st.dist_ly <= radius
    IN  SelectSeq(s, InRadius)

\* a cap that keeps max_stars stars behind the first
CapStarsOneMore(within, maxs) ==
    IF Len(within) > maxs
    THEN <<within[1]>> \o Slice(within, 1, maxs + 1)
    ELSE within

\* `[sol] + within[1:max_stars]` when the cap bites, else all of `within`
CapStars(within, maxs) ==
    IF Len(within) > maxs
    THEN <<within[1]>> \o Slice(within, 1, maxs)
    ELSE within

\* result[0]["is_sol"] = True
TagSol(result) ==
    [i \in 1..Len(result) |->
        IF i = 1 THEN [result[i] EXCEPT !.is_sol = TRUE] ELSE result[i]]

select_stars_within_radius(s, radius, maxs) ==
    LET within == WithinRadius(s, radius)
    IN  IF within = <<>> THEN <<>>
        ELSE TagSol(CapStars(SortByDist(within), maxs))

(***************************************************************************)
(* _size_metric                                                            *)
(***************************************************************************)
\* (has_lum, metric1, metric2); float(lum_str) / float(mag_str) succeed on a
\* number only, an empty string is skipped and any other text raises
\* ValueError, which is passed over
_size_metric(star) ==
    IF star.lum.k = "num" THEN <<1, star.lum.v, 0>>
    ELSE IF star.mag.k = "num" THEN <<0, 0 - star.mag.v, 0>>
    ELSE <<0, 0, 0 - star.dist_ly>>

\* Python's tuple comparison a > b
TupleGreater(a, b) ==
    \/ a[1] > b[1]
    \/ a[1] = b[1] /\ a[2] > b[2]
    \/ a[1] = b[1] /\ a[2] = b[2] /\ a[3] > b[3]

\* max(s, key=_size_metric): the first of the largest elements
RECURSIVE MaxFrom(_, _)
MaxFrom(best, s) ==
    IF s = <<>> THEN best
    ELSE IF TupleGreater(_size_metric(Head(s)), _size_metric(best))
         THEN MaxFrom(Head(s), Tail(s))
         ELSE MaxFrom(best, Tail(s))

MaxBySize(s) == MaxFrom(Head(s), Tail(s))

(***************************************************************************)
(* project_to_grid                                                         *)
(***************************************************************************)
GRID_CENTER == 50
GRID_MAX == 99

\* Python's round(n / d) for d > 0: to the nearest integer, a tie to the even
RoundHalfEven(n, d) ==
    LET q == n \div d
        r == n % d
    IN  IF 2 * r < d THEN q
        ELSE IF 2 * r > d THEN q + 1
        ELSE IF q % 2 = 0 THEN q ELSE q + 1

\* int(round(50.0 + (v_ly / scale)))
GridCoord(v_ly, sc) ==
    RoundHalfEven(GRID_CENTER * sc.num + v_ly * sc.den, sc.num)

\* an off-map test that lets column and row 100 through
OffMapInclusive(gx, gy) ==
    gx < 0 \/ gx > GRID_MAX + 1 \/ gy < 0 \/ gy > GRID_MAX + 1

OffMap(gx, gy) == gx < 0 \/ gx > GRID_MAX \/ gy < 0 \/ gy > GRID_MAX

\* (s.get("proper") or "").strip(): real names carry no blanks here
BlankNames == {"", " "}
Strip(proper) == IF proper \in BlankNames THEN "" ELSE proper

\* cell_map.setdefault(key, []).append(s); a dict keeps its keys in the
\* order of their first insertion
AddToCell(cell_map, key, s) ==
    IF \E i \in 1..Len(cell_map) : cell_map[i].key = key
    THEN [i \in 1..Len(cell_map) |->
            IF cell_map[i].key = key
            THEN [cell_map[i] EXCEPT !.cell_stars = Append(@, s)]
            ELSE cell_map[i]]
    ELSE Append(cell_map, [key |-> key, cell_stars |-> <<s>>])

\* the first loop of project_to_grid
RECURSIVE BuildCellMap(_, _, _)
BuildCellMap(cell_map, s, sc) ==
    IF s = <<>> THEN cell_map
    ELSE LET gx == GridCoord(Head(s).x_ly, sc)
             gy == GridCoord(Head(s).y_ly, sc)
         IN  IF OffMap(gx, gy)
             THEN BuildCellMap(cell_map, Tail(s), sc)
             ELSE BuildCellMap(
                    AddToCell(cell_map, <<gx, gy>>,
                              [Head(s) EXCEPT !.grid_x = gx, !.grid_y = gy]),
                    Tail(s), sc)

\* a choice that does not look at is_sol
ChooseInCellNoSol(cell_stars) ==
    LET IsNamed(s) == Strip(s.proper) # ""
        named == SelectSeq(cell_stars, IsNamed)
    IN  IF named # <<>> THEN MaxBySize(named)
        ELSE MaxBySize(cell_stars)

\* a choice by size alone, names not looked at
ChooseInCellBySize(cell_stars) ==
    LET IsSol(s) == s.is_sol
        sol_in_cell == SelectSeq(cell_stars, IsSol)
    IN  IF sol_in_cell # <<>> THEN sol_in_cell[1]
        ELSE MaxBySize(cell_stars)

\* the choice of one cell's survivor
ChooseInCell(cell_stars) ==
    LET IsSol(s) == s.is_sol
        IsNamed(s) == Strip(s.proper) # ""
        sol_in_cell == SelectSeq(cell_stars, IsSol)
        named == SelectSeq(cell_stars, IsNamed)
    IN  IF sol_in_cell # <<>> THEN sol_in_cell[1]
        ELSE IF named # <<>> THEN MaxBySize(named)
        ELSE MaxBySize(cell_stars)

CellMapOf(s, sc) == BuildCellMap(<<>>, s, sc)

project_to_grid(s, sc) ==
    LET cell_map == CellMapOf(s, sc)
    IN  [i \in 1..Len(cell_map) |-> ChooseInCell(cell_map[i].cell_stars)]

(***************************************************************************)
(* write_star_csv                                                          *)
(***************************************************************************)
\* _seed_from_star for a numeric catalog id: int(base) & 0x7FFFFFFF, which
\* leaves an id below 2^31 (every id here) as it is
_seed_from_star(star) == star.id

\* random.Random(seed) picks prefix, type and number: a function of the seed
generate_synthetic_name(star) == <<"synthetic", _seed_from_star(star)>>

CsvName(s) ==
    IF Strip(s.proper) # "" THEN <<Strip(s.proper)>>
    ELSE generate_synthetic_name(s)

\* a row that keeps the id of the input row
CsvRowKeepId(new_id, s) ==
    [id |-> s.id, proper |-> CsvName(s), dist_ly |-> s.dist_ly,
     grid_x |-> s.grid_x, grid_y |-> s.grid_y]

CsvRow(new_id, s) ==
    [id |-> new_id, proper |-> CsvName(s), dist_ly |-> s.dist_ly,
     grid_x |-> s.grid_x, grid_y |-> s.grid_y]

\* sorted(stars, key=dist_ly), then one row per star, ids from enumerate()
write_star_csv(s) ==
    LET stars_sorted == SortByDist(s)
    IN  [i \in 1..Len(stars_sorted) |-> CsvRow(i - 1, stars_sorted[i])]

(***************************************************************************)
(* The inputs of the catalog builder                                       *)
(***************************************************************************)
DistChoices == {0, 1, 2}
\* (x_ly, y_ly)
PosChoices == {<<0, 0>>, <<1, 0>>, <<0, 1>>, <<0 - 1, 0>>}
ProperChoices == {"", "Vega"}
RadiusChoices == {1}
MaxStarsChoices == {1, 2, 3}
\* 1 ly per cell, 2 ly per cell, 1/50 ly per cell; 0 and -1
ScaleChoices == {[num |-> 1, den |-> 1], [num |-> 2, den |-> 1],
                 [num |-> 1, den |-> 50],
                 [num |-> 0, den |-> 1], [num |-> 0 - 1, den |-> 1]}

\* a catalog's distance is the norm of (x, y, z): never below that of (x, y)
Consistent(k) == k.pos[1] * k.pos[1] + k.pos[2] * k.pos[2] <= k.dist * k.dist

\* rows that differ in distance, position and name, without lum and mag;
\* the rows beyond every radius of RadiusChoices are never projected, and
\* are all put at the origin
StarKinds ==
    {k \in [dist : DistChoices, pos : PosChoices, proper : ProperChoices,
            lum : {NoNum}, mag : {NoNum}] :
        /\ Consistent(k)
        /\ (\A r \in RadiusChoices : k.dist > r) => k.pos = <<0, 0>>}

\* rows around two cells that differ in name, lum and mag; a catalog row
\* with a luminosity has a magnitude; the row at distance 0 has neither,
\* and so is the smallest of its cell by size
CellDistChoices == {0, 1}
CellPosChoices == {<<0, 0>>, <<1, 0>>}
LumChoices == {NoNum, Num(2)}
MagChoices == {NoNum, Num(0 - 1), Num(1)}
CellScaleChoices == {[num |-> 1, den |-> 1]}

CellStarKinds ==
    {k \in [dist : CellDistChoices, pos : CellPosChoices,
            proper : ProperChoices, lum : LumChoices, mag : MagChoices] :
        /\ Consistent(k)
        /\ k.lum # NoNum => k.mag = Num(1)
        /\ k.dist = 0 => k.lum = NoNum /\ k.mag = NoNum}

\* the catalog id of a HYG row is its row number
LoadedStars(kinds) ==
    [i \in 1..Len(kinds) |->
        MkStar(i, kinds[i].proper, kinds[i].dist, kinds[i].pos[1],
               kinds[i].pos[2], kinds[i].lum, kinds[i].mag)]

InputsOf(kindSet) == UNION {[1..n -> kindSet] : n \in 0..MaxRows}

(***************************************************************************)
(* A program that is not running                                           *)
(***************************************************************************)
CatalogIdle ==
    /\ cpc = "idle"
    /\ stars_all = <<>>
    /\ radius_ly = 0
    /\ max_stars = 0
    /\ scale = [num |-> 1, den |-> 1]
    /\ stars = <<>>
    /\ csv_rows = <<>>
    /\ ascii_map = [sol |-> <<>>, marks |-> {}]
    /\ outputs = {}

GeneratorIdle ==
    /\ gpc = "idle"
    /\ system_id = 0
    /\ system_name = ""
    /\ spect = <<>>
    /\ global_seed = 0
    /\ max_primaries = 0
    /\ objects = <<>>
    /\ primary_indices = <<>>
    /\ primary_budget = 0
    /\ parent_pos = 0
    /\ moons_left = 0

NoAttributes ==
    [habitability |-> 0, risk |-> 0, ore_richness |-> 0, fuel_richness |-> 0]

AttributesIdle ==
    /\ apc = "idle"
    /\ attr_args = [system_id |-> 0, object_id |-> 0, obj_class |-> "",
                    spect |-> <<>>]
    /\ attr_digest = <<0, 0, 0, 0>>
    /\ attr_result = NoAttributes

SystemsIdle == calls = <<>> /\ rngs = <<>>

LoaderIdle == lpc = "idle" /\ raw_rows = <<>> /\ loaded = <<>>

\* a file that was not opened
NotOpened == [opened |-> FALSE, rows |-> <<>>]

GenMainIdle ==
    /\ mpc = "idle"
    /\ fieldnames = {}
    /\ star_rows = <<>>
    /\ gen_stars = <<>>
    /\ all_objects = <<>>
    /\ out_rows = NotOpened

ArtifactsIdle ==
    /\ tpc = "idle"
    /\ h_extra = <<0, 0>>
    /\ art_type = ""
    /\ object_file = [header |-> FALSE, rows |-> <<>>]
    /\ artifact_runs = <<>>

RestIdle == SystemsIdle /\ LoaderIdle /\ GenMainIdle /\ ArtifactsIdle

(***************************************************************************)
(* build_star_database.main                                                *)
(***************************************************************************)
\* a test of `not stars` that never sees an empty list
NothingLeftIgnored(s) == FALSE

\* `if not stars`
NothingLeft(s) == s = <<>>

\* an output file that does not exist
NoMap == [sol |-> <<>>, marks |-> {}]

\* write_ascii_map's sol_star: the first star flagged is_sol, else the
\* nearest, which min() takes first among equals
RECURSIVE NearestFrom(_, _)
NearestFrom(best, s) ==
    IF s = <<>> THEN best
    ELSE IF Head(s).dist_ly < best.dist_ly
         THEN NearestFrom(Head(s), Tail(s))
         ELSE NearestFrom(best, Tail(s))

SolIndex(s) ==
    IF \E i \in 1..Len(s) : s[i].is_sol
    THEN CHOOSE i \in 1..Len(s) :
            s[i].is_sol /\ \A k \in 1..(i - 1) : ~s[k].is_sol
    ELSE LET nearest == NearestFrom(Head(s), Tail(s))
         IN  CHOOSE i \in 1..Len(s) :
                s[i] = nearest /\ \A k \in 1..(i - 1) : s[k] # nearest

\* sol_star["is_sol"] = True, when no star was flagged
FlagSol(s) == [s EXCEPT ![SolIndex(s)].is_sol = TRUE]

\* the map as what is on it: 'X' on the cell of sol_star, '*' on the cells
\* of the other stars
write_ascii_map(s) ==
    LET sol == s[SolIndex(s)]
        sol_cell == <<sol.grid_x, sol.grid_y>>
    IN  [sol |-> sol_cell,
         marks |-> {<<s[i].grid_x, s[i].grid_y>> :
                      i \in {k \in 1..Len(s) :
                                /\ k # SolIndex(s)
                                /\ ~OffMap(s[k].grid_x, s[k].grid_y)
                                /\ <<s[k].grid_x, s[k].grid_y>> # sol_cell}}]

\* a map whose mask is laid over the stars too
MapCharMaskFirst(m, gx, gy, sc, radius) ==
    IF <<gx, gy>> = m.sol THEN "X"
    ELSE LET dx == gx - m.sol[1]
             dy == gy - m.sol[2]
         IN  IF (dx * dx + dy * dy) * sc.num * sc.num
                    > radius * radius * sc.den * sc.den
             THEN " "
             ELSE IF <<gx, gy>> \in m.marks THEN "*" ELSE "."

\* a cell of the map: a cell without a star is ' ' when its centre is
\* farther from sol_star than radius_ly, at sc light-years per cell
MapChar(m, gx, gy, sc, radius) ==
    IF <<gx, gy>> = m.sol THEN "X"
    ELSE IF <<gx, gy>> \in m.marks THEN "*"
    ELSE LET dx == gx - m.sol[1]
             dy == gy - m.sol[2]
         IN  IF (dx * dx + dy * dy) * sc.num * sc.num
                    > radius * radius * sc.den * sc.den
             THEN " " ELSE "."

InitMain ==
    /\ cpc = "start"
    /\ stars_all = <<>>
    /\ radius_ly \in RadiusChoices
    /\ stars = <<>>
    /\ csv_rows = <<>>
    /\ ascii_map = NoMap
    /\ outputs = {}
    /\ GeneratorIdle
    /\ AttributesIdle
    /\ RestIdle

InitCatalog ==
    /\ InitMain
    /\ max_stars \in MaxStarsChoices
    /\ scale \in ScaleChoices

InitCell ==
    /\ InitMain
    /\ max_stars = MaxRows
    /\ scale \in CellScaleChoices

\* if args.scale <= 0: sys.exit(1)
CheckScale ==
    /\ cpc = "start"
    /\ cpc' = IF scale.num <= 0 THEN "exit_scale" ELSE "load"
    /\ UNCHANGED <<stars_all, radius_ly, max_stars, scale, stars, csv_rows,
                   ascii_map, outputs, genVars, attrVars, restVars>>

\* stars_all = load_hyg_csv(args.input_csv), for any input file
LoadFrom(kindSet) ==
    /\ cpc = "load"
    /\ \/ /\ \E kinds \in InputsOf(kindSet) :
                 stars_all' = LoadedStars(kinds)
          /\ cpc' = "loaded"
       \/ \* except OSError: sys.exit(1)
          /\ stars_all' = stars_all
          /\ cpc' = "exit_no_input"
    /\ UNCHANGED <<radius_ly, max_stars, scale, stars, csv_rows,
                   ascii_map, outputs, genVars, attrVars, restVars>>

LoadCatalog == LoadFrom(StarKinds)

LoadCell == LoadFrom(CellStarKinds)

\* rows without a name
UnnamedStarKinds == {k \in StarKinds : k.proper = ""}

LoadUnnamed == LoadFrom(UnnamedStarKinds)

\* stars = select_stars_within_radius(...); sys.exit(1) when none is left
Select ==
    /\ cpc = "loaded"
    /\ stars' = select_stars_within_radius(stars_all, radius_ly, max_stars)
    /\ cpc' = IF NothingLeft(stars') THEN "exit_no_stars" ELSE "selected"
    /\ UNCHANGED <<stars_all, radius_ly, max_stars, scale, csv_rows,
                   ascii_map, outputs, genVars, attrVars, restVars>>

\* stars = project_to_grid(stars, scale); sys.exit(1) when none is left
Project ==
    /\ cpc = "selected"
    /\ stars' = project_to_grid(stars, scale)
    /\ cpc' = IF NothingLeft(stars') THEN "exit_all_pruned" ELSE "projected"
    /\ UNCHANGED <<stars_all, radius_ly, max_stars, scale, csv_rows,
                   ascii_map, outputs, genVars, attrVars, restVars>>

\* write_star_csv(stars, args.csv_out)
WriteCsv ==
    /\ cpc = "projected"
    /\ csv_rows' = write_star_csv(stars)
    /\ outputs' = outputs \cup {"csv"}
    /\ cpc' = "written"
    /\ UNCHANGED <<stars_all, radius_ly, max_stars, scale, stars,
                   ascii_map, genVars, attrVars, restVars>>

\* write_ascii_map(stars, args.map_out, args.scale, args.radius_ly)
WriteMap ==
    /\ cpc = "written"
    /\ ascii_map' = write_ascii_map(stars)
    /\ stars' = FlagSol(stars)
    /\ outputs' = outputs \cup {"map"}
    /\ cpc' = "done"
    /\ UNCHANGED <<stars_all, radius_ly, max_stars, scale, csv_rows,
                   genVars, attrVars, restVars>>

NextCatalog ==
    CheckScale \/ LoadCatalog \/ Select \/ Project \/ WriteCsv \/ WriteMap

NextCell ==
    CheckScale \/ LoadCell \/ Select \/ Project \/ WriteCsv \/ WriteMap

SpecCatalog == InitCatalog /\ [][NextCatalog]_vars

SpecCell == InitCell /\ [][NextCell]_vars

(***************************************************************************)
(* Claims about the catalog builder                                        *)
(***************************************************************************)
\* what main handed to project_to_grid
SelectedInput == select_stars_within_radius(stars_all, radius_ly, max_stars)

CellOf(s) == <<GridCoord(s.x_ly, scale), GridCoord(s.y_ly, scale)>>

OnMap(s) == CellOf(s)[1] \in 0..99 /\ CellOf(s)[2] \in 0..99

Min(a, b) == IF a <= b THEN a ELSE b

\* C1: after project_to_grid every surviving star has grid_x and grid_y in
\* 0..99, and no two surviving stars share a cell.
C1_GridInvariant ==
    cpc \in {"projected", "written"} =>
        /\ \A i \in 1..Len(stars) :
              stars[i].grid_x \in 0..99 /\ stars[i].grid_y \in 0..99
        /\ \A i, j \in 1..Len(stars) :
              i # j => <<stars[i].grid_x, stars[i].grid_y>>
                        # <<stars[j].grid_x, stars[j].grid_y>>

\* three stars selected, one lost off the map and ... two left in two cells,
\* or two of three colliding: here a collision with two survivors
C1_Witness ==
    /\ cpc = "projected"
    /\ Len(stars) = 2
    /\ Len(SelectedInput) = 3
    /\ \A i \in 1..3 : OnMap(SelectedInput[i])

\* a star pruned for leaving the map, beside a survivor
C1_WitnessOffMap ==
    /\ cpc = "projected"
    /\ Len(stars) = 1
    /\ \E i \in 1..Len(SelectedInput) : ~OnMap(SelectedInput[i])

\* C2: when the star flagged is_sol projects into a cell together with
\* other stars, it is the one survivor of that cell, whatever the others'
\* name, luminosity, magnitude or distance.
C2_HomeStarWins ==
    cpc \in {"projected", "exit_all_pruned"} =>
        \A a, b \in 1..Len(SelectedInput) :
            LET s == SelectedInput[a]
                t == SelectedInput[b]
            IN  (a # b /\ s.is_sol /\ OnMap(s) /\ CellOf(t) = CellOf(s)) =>
                    /\ \E i \in 1..Len(stars) : stars[i].id = s.id
                    /\ \A i \in 1..Len(stars) : stars[i].id # t.id
                    /\ \A i \in 1..Len(stars) :
                          <<stars[i].grid_x, stars[i].grid_y>> = CellOf(s)
                              => stars[i].is_sol

\* an unnamed home star without lum or mag shares its cell with two others,
\* one of them named and with a luminosity
C2_Witness ==
    /\ cpc = "projected"
    /\ Len(SelectedInput) = 3
    /\ Len(stars) = 1
    /\ stars[1].is_sol
    /\ stars[1].proper = "" /\ stars[1].lum = NoNum /\ stars[1].mag = NoNum
    /\ \E b \in 2..3 :
          /\ SelectedInput[b].proper # ""
          /\ SelectedInput[b].lum.k = "num"
          /\ SelectedInput[b].dist_ly = stars[1].dist_ly

\* some permutation of a list
PermutationsOf(s) ==
    {[i \in 1..Len(s) |-> s[f[i]]] : f \in Permutations(1..Len(s))}

\* the catalog rows of a whole run on the rows `input`
CatalogOf(input) ==
    LET sel == select_stars_within_radius(input, radius_ly, max_stars)
        surv == IF sel = <<>> THEN <<>> ELSE project_to_grid(sel, scale)
    IN  IF surv = <<>> THEN <<>> ELSE write_star_csv(surv)

\* C3: the catalog rows are the same for every permutation of the input
\* rows, also when stars have equal distances.
C3_RowOrderIndependent ==
    cpc = "written" =>
        \A input \in PermutationsOf(stars_all) : CatalogOf(input) = csv_rows

\* C4: when the star flagged as home star survives project_to_grid it is the
\* row with id 0, also beside survivors of the same distance; and the row
\* with id 0 is a survivor of the smallest distance.
C4_HomeStarIsRowZero ==
    cpc = "written" =>
        /\ csv_rows[1].id = 0
        /\ \A i \in 1..Len(stars) : csv_rows[1].dist_ly <= stars[i].dist_ly
        /\ \A i \in 1..Len(stars) :
              stars[i].is_sol =>
                  /\ csv_rows[1].grid_x = stars[i].grid_x
                  /\ csv_rows[1].grid_y = stars[i].grid_y
                  /\ csv_rows[1].proper = CsvName(stars[i])

\* the home star survives beside a survivor of the same distance that the
\* input listed first
C4_Witness ==
    /\ cpc = "written"
    /\ \E i, j \in 1..Len(stars) :
          /\ stars[i].is_sol
          /\ ~stars[j].is_sol
          /\ stars[j].dist_ly = stars[i].dist_ly

\* C5: write_star_csv writes one row per surviving star, in non-decreasing
\* dist_ly order, with ids 0, 1, ..., n-1 in row order whatever the catalog
\* ids were.
C5_DenseSortedRows ==
    cpc = "written" =>
        /\ Len(csv_rows) = Len(stars)
        /\ \A i \in 1..Len(csv_rows) : csv_rows[i].id = i - 1
        /\ \A i \in 1..Len(csv_rows) - 1 :
              csv_rows[i].dist_ly <= csv_rows[i + 1].dist_ly
        /\ \A i \in 1..Len(stars) :
              \E j \in 1..Len(csv_rows) :
                  /\ csv_rows[j].grid_x = stars[i].grid_x
                  /\ csv_rows[j].grid_y = stars[i].grid_y
                  /\ csv_rows[j].dist_ly = stars[i].dist_ly
                  /\ csv_rows[j].proper = CsvName(stars[i])

\* three rows of two distances, the first of them a star whose catalog id
\* was 3
C5_Witness ==
    /\ cpc = "written"
    /\ Len(csv_rows) = 3
    /\ csv_rows[1].dist_ly < csv_rows[3].dist_ly
    /\ \E i \in 1..Len(stars) : stars[i].is_sol /\ stars[i].id = 3

InRadiusRows == {i \in 1..Len(stars_all) : stars_all[i].dist_ly <= radius_ly}

\* C6: select_stars_within_radius returns the min(k, max_stars) nearest of
\* the k stars with dist_ly <= radius_ly, in ascending distance order, the
\* first one flagged as home star and no other.
C6_SelectNearest ==
    cpc \in {"selected", "exit_no_stars"} =>
        /\ Len(stars) = Min(Cardinality(InRadiusRows), max_stars)
        /\ Len(stars) <= max_stars
        /\ \A i \in 1..Len(stars) : stars[i].dist_ly <= radius_ly
        /\ \A i \in 1..Len(stars) - 1 :
              stars[i].dist_ly <= stars[i + 1].dist_ly
        /\ \A i, j \in 1..Len(stars) : i # j => stars[i].id # stars[j].id
        /\ \A i \in 1..Len(stars) :
              \E r \in InRadiusRows :
                  stars_all[r] = [stars[i] EXCEPT !.is_sol = FALSE]
        /\ \A r \in InRadiusRows :
              (\A i \in 1..Len(stars) : stars[i].id # stars_all[r].id) =>
                  \A i \in 1..Len(stars) :
                      stars[i].dist_ly <= stars_all[r].dist_ly
        /\ \A i \in 1..Len(stars) : stars[i].is_sol <=> i = 1

\* three stars in the radius, two of them kept
C6_Witness ==
    /\ cpc = "selected"
    /\ Cardinality(InRadiusRows) = 3
    /\ max_stars = 2
    /\ Len(stars) = 2
    /\ stars[1].dist_ly < stars[2].dist_ly

\* a star beyond the radius is left out, one on the radius is kept
C6_WitnessRadius ==
    /\ cpc = "selected"
    /\ Cardinality(InRadiusRows) < Len(stars_all)
    /\ \E i \in 1..Len(stars) : stars[i].dist_ly = radius_ly

(***************************************************************************)
(* generate_system_objects.py: distributions and constants                 *)
(***************************************************************************)
OBJECT_COUNT_DISTRIBUTION ==
    <<<<0, 10>>, <<1, 25>>, <<2, 30>>, <<3, 20>>, <<4, 10>>, <<5, 5>>>>

PLANET_TYPE_DISTRIBUTION ==
    <<<<"RP", 60>>, <<"DP", 15>>, <<"IC", 15>>, <<"GG", 10>>>>

\* a table that gives an asteroid a moon
MAX_MOONS_WITH_AS == [c \in {"RP", "DP", "IC", "GG", "AS"} |->
                          IF c = "GG" THEN 3 ELSE 1]

MAX_MOONS_PER_CLASS == [c \in {"RP", "DP", "IC", "GG"} |->
                            IF c = "GG" THEN 3 ELSE 1]

MOON_TYPES_ROCKY == <<<<"RM", 70>>, <<"IM", 30>>>>

MOON_TYPES_GG == <<<<"RM", 50>>, <<"IM", 50>>>>

\* HAB_STAR_BASE.get(letter, 30)
HabStarBase(letter) ==
    CASE letter \in {"O", "B"} -> 5
      [] letter = "A" -> 15
      [] letter = "F" -> 30
      [] letter = "G" -> 50
      [] letter = "K" -> 45
      [] letter = "M" -> 35
      [] OTHER -> 30

\* RISK_STAR_BASE.get(letter, 0)
RiskStarBase(letter) ==
    CASE letter \in {"O", "B"} -> 25
      [] letter = "A" -> 15
      [] letter = "F" -> 10
      [] letter = "G" -> 0
      [] letter = "K" -> 0 - 5
      [] letter = "M" -> 0 - 10
      [] OTHER -> 0

\* HAB_CLASS_MOD.get(obj_class, 0)
HabClassMod(obj_class) ==
    CASE obj_class = "RP" -> 30
      [] obj_class = "DP" -> 10
      [] obj_class = "IC" -> 0
      [] obj_class = "GG" -> 0 - 25
      [] obj_class = "RM" -> 20
      [] obj_class = "IM" -> 0
      [] obj_class = "AS" -> 0 - 10
      [] OTHER -> 0

\* RISK_CLASS_BASE.get(obj_class, 50)
RiskClassBase(obj_class) ==
    CASE obj_class = "RP" -> 40
      [] obj_class = "DP" -> 60
      [] obj_class = "IC" -> 50
      [] obj_class = "GG" -> 80
      [] obj_class = "RM" -> 45
      [] obj_class = "IM" -> 55
      [] obj_class = "AS" -> 65
      [] OTHER -> 50

(***************************************************************************)
(* Helper functions                                                        *)
(***************************************************************************)
\* a clamp without its lower bound
clampAbove(value, lo, hi) == IF hi < value THEN hi ELSE value

clamp(value, lo, hi) ==
    LET m == IF hi < value THEN hi ELSE value
    IN  IF lo > m THEN lo ELSE m

RECURSIVE SumWeights(_)
SumWeights(table) ==
    IF table = <<>> THEN 0 ELSE Head(table)[2] + SumWeights(Tail(table))

\* the loop `acc += weight; if r <= acc: return val`, and behind it the
\* fallback to the last entry
RECURSIVE WeightedFrom(_, _, _, _)
WeightedFrom(table, i, acc, r) ==
    IF i > Len(table) THEN table[Len(table)][1]
    ELSE IF r <= acc + table[i][2] THEN table[i][1]
    ELSE WeightedFrom(table, i + 1, acc + table[i][2], r)

\* choose_weighted / generate_planet_type / choose_moon_class with the draw
\* r = rng.uniform(0, total)
choose_weighted(r, table) == WeightedFrom(table, 1, 0, r)

\* the cumulative weights of a table
RECURSIVE Thresholds(_, _)
Thresholds(table, acc) ==
    IF table = <<>> THEN {}
    ELSE {acc + Head(table)[2]}
            \cup Thresholds(Tail(table), acc + Head(table)[2])

\* the draws rng.uniform(0, total) that the model tries: 0, every threshold
\* of the table and the next integer behind each threshold but the last
UniformDraws(table) ==
    LET total == SumWeights(table)
    IN  {0} \cup {r \in Thresholds(table, 0) \cup
                         {a + 1 : a \in Thresholds(table, 0)} : r <= total}

\* a table that lets every parent have what a gas giant may have
NumMoonsTableOfGasGiant(parent_class) ==
    <<<<0, 20>>, <<1, 40>>, <<2, 30>>, <<3, 10>>>>

\* the table choose_num_moons draws from
NumMoonsTable(parent_class) ==
    LET max_m == IF parent_class \in DOMAIN MAX_MOONS_PER_CLASS
                 THEN MAX_MOONS_PER_CLASS[parent_class] ELSE 0
        choices == IF parent_class = "GG"
                   THEN <<<<0, 20>>, <<1, 40>>, <<2, 30>>, <<3, 10>>>>
                   ELSE <<<<0, 50>>, <<1, 50>>>>
        Fits(c) == c[1] <= max_m
    IN  SelectSeq(choices, Fits)

\* choose_num_moons with the draw r; no draw is made when max_m == 0
choose_num_moons(r, parent_class) ==
    IF parent_class \notin DOMAIN MAX_MOONS_PER_CLASS
       \/ MAX_MOONS_PER_CLASS[parent_class] = 0
    THEN 0
    ELSE choose_weighted(r, NumMoonsTable(parent_class))

MoonClassTable(parent_class) ==
    IF parent_class = "GG" THEN MOON_TYPES_GG ELSE MOON_TYPES_ROCKY

choose_moon_class(r, parent_class) ==
    choose_weighted(r, MoonClassTable(parent_class))

\* characters of a spect column, and str.upper() / str.isalpha() on them
Letters == {"O", "B", "A", "F", "G", "K", "M", "D", "V",
            "o", "b", "a", "f", "g", "k", "m", "d", "v"}
Upper(ch) ==
    CASE ch = "o" -> "O" [] ch = "b" -> "B" [] ch = "a" -> "A"
      [] ch = "f" -> "F" [] ch = "g" -> "G" [] ch = "k" -> "K"
      [] ch = "m" -> "M" [] ch = "d" -> "D" [] ch = "v" -> "V"
      [] OTHER -> ch

\* the first alphabetic character of spect.upper(), or "?"
RECURSIVE parse_spectral_letter(_)
parse_spectral_letter(sp) ==
    IF sp = <<>> THEN "?"
    ELSE IF Head(sp) \in Letters THEN Upper(Head(sp))
    ELSE parse_spectral_letter(Tail(sp))

(***************************************************************************)
(* compute_attributes                                                      *)
(***************************************************************************)
\* h_bytes[:4] is a tuple of four bytes, h32 their big-endian value:
\* h32 & 0x0F and (h32 >> 4) & 0x0F are the nibbles of byte 4,
\* (h32 >> 8) & 0xFF is byte 3 and (h32 >> 16) & 0xFF is byte 2
LowNibble(b4) == b4[4] % 16
HighNibble(b4) == (b4[4] \div 16) % 16
OreByte(b4) == b4[3]
FuelByte(b4) == b4[2]

OreTier(obj_class, ore_byte) ==
    IF obj_class \in {"RP", "DP", "RM", "AS"}
    THEN (IF ore_byte < 25 THEN 0
          ELSE IF ore_byte < 100 THEN 1
          ELSE IF ore_byte < 200 THEN 2 ELSE 3)
    ELSE IF obj_class \in {"IC", "IM"}
    THEN (IF ore_byte < 80 THEN 0
          ELSE IF ore_byte < 180 THEN 1
          ELSE IF ore_byte < 230 THEN 2 ELSE 3)
    ELSE 0

\* one mapping of the fuel byte for every class
FuelTierOfAny(obj_class, fuel_byte) ==
    IF fuel_byte < 40 THEN 0
    ELSE IF fuel_byte < 160 THEN 1
    ELSE IF fuel_byte < 230 THEN 2 ELSE 3

FuelTier(obj_class, fuel_byte) ==
    IF obj_class = "GG"
    THEN (IF fuel_byte < 128 THEN 2 ELSE 3)
    ELSE (IF fuel_byte < 40 THEN 0
          ELSE IF fuel_byte < 160 THEN 1
          ELSE IF fuel_byte < 230 THEN 2 ELSE 3)

\* a jitter taken from bits 4 to 7, which are the jitter of the risk
HabitabilityHighBits(b4, obj_class, sp) ==
    clamp(HabStarBase(parse_spectral_letter(sp)) + HabClassMod(obj_class)
            + (HighNibble(b4) - 8), 0, 100)

Habitability(b4, obj_class, sp) ==
    clamp(HabStarBase(parse_spectral_letter(sp)) + HabClassMod(obj_class)
            + (LowNibble(b4) - 8), 0, 100)

Risk(b4, obj_class, sp) ==
    clamp(RiskClassBase(obj_class) + RiskStarBase(parse_spectral_letter(sp))
            + (HighNibble(b4) - 8), 0, 100)

\* compute_attributes behind its hash: b4 = sha256(key).digest()[:4]
AttributesOf(b4, obj_class, sp) ==
    [habitability |-> Habitability(b4, obj_class, sp),
     risk |-> Risk(b4, obj_class, sp),
     ore_richness |-> OreTier(obj_class, OreByte(b4)),
     fuel_richness |-> FuelTier(obj_class, FuelByte(b4))]

(***************************************************************************)
(* hashlib.sha256(key).digest()                                            *)
(***************************************************************************)
\* SHA-256 itself is not computed.  The generator below uses one fixed
\* function of the key in its place; SpecAttributes ranges over the digests
\* themselves.  ClassNumber numbers the class code that is part of a key.
ClassNumber(obj_class) ==
    CASE obj_class = "RP" -> 1 [] obj_class = "DP" -> 2
      [] obj_class = "IC" -> 3 [] obj_class = "GG" -> 4
      [] obj_class = "RM" -> 5 [] obj_class = "IM" -> 6
      [] obj_class = "AS" -> 7 [] OTHER -> 8

DigestOf(n) ==
    <<(n * 167 + 13) % 256, (n * 101 + 7) % 256,
      (n * 59 + 201) % 256, (n * 211 + 5) % 256>>

\* key = f"{system_id}:{object_id}:{obj_class}"
AttributeDigest(sid, oid, obj_class) ==
    DigestOf(sid * 31 + oid * 17 + ClassNumber(obj_class))

\* key = f"orbit:{system_id}:{obj_idx}"; the digest's first byte, the other
\* three bytes 0, so that the angle is a whole number of 256ths of a turn
OrbitDigest(sid, obj_idx) ==
    <<DigestOf(sid * 37 + obj_idx * 11 + 3)[1], 0, 0, 0>>

\* key = f"moonpos:{system_id}:{object_id}"
MoonDigest(sid, oid) == DigestOf(sid * 41 + oid * 23 + 5)

\* compute_attributes(system_id, object_id, obj_class, spect)
compute_attributes(sid, oid, obj_class, sp) ==
    AttributesOf(AttributeDigest(sid, oid, obj_class), obj_class, sp)

(***************************************************************************)
(* Objects                                                                 *)
(***************************************************************************)
\* parent_object_id of a primary
None == -1
\* a key that is not set yet (attributes, coordinates)
Unset == -1

\* an object dict that always carries the system_id of the home block
MkObjectOfHome(sid, oid, name, obj_class, parent, is_moon) ==
    [system_id |-> 0, object_id |-> oid, name |-> name,
     class |-> obj_class, parent_object_id |-> parent, is_moon |-> is_moon,
     habitability |-> Unset, risk |-> Unset,
     ore_richness |-> Unset, fuel_richness |-> Unset,
     local_x |-> Unset, local_y |-> Unset]

\* an object dict whose parent_object_id is 0 where the code has None
MkObjectParentZero(sid, oid, name, obj_class, parent, is_moon) ==
    [system_id |-> sid, object_id |-> oid, name |-> name,
     class |-> obj_class,
     parent_object_id |-> IF parent = None THEN 0 ELSE parent,
     is_moon |-> is_moon,
     habitability |-> Unset, risk |-> Unset,
     ore_richness |-> Unset, fuel_richness |-> Unset,
     local_x |-> Unset, local_y |-> Unset]

MkObject(sid, oid, name, obj_class, parent, is_moon) ==
    [system_id |-> sid, object_id |-> oid, name |-> name,
     class |-> obj_class, parent_object_id |-> parent, is_moon |-> is_moon,
     habitability |-> Unset, risk |-> Unset,
     ore_richness |-> Unset, fuel_richness |-> Unset,
     local_x |-> Unset, local_y |-> Unset]

\* objects[i] of the code is objs[i + 1]
At(objs, i) == objs[i + 1]

(***************************************************************************)
(* assign_names_for_system                                                 *)
(***************************************************************************)
\* a name is the sequence of its parts: <<"Vega", "II">> is "Vega II",
\* <<"Vega", "II", "-", "a">> is "Vega II-a"
roman == <<"I", "II", "III", "IV", "V", "VI", "VII", "VIII", "IX", "X">>

Letter(count) == <<"a", "b", "c", "d", "e", "f">>[count]

\* the position of object index p in primary_indices, from 0, or None
PrimaryOrder(prim, p) ==
    IF \E k \in 1..Len(prim) : prim[k] = p
    THEN (CHOOSE k \in 1..Len(prim) : prim[k] = p) - 1
    ELSE None

\* numerals that count the planets only, passing over the asteroid
PrimaryNameAmongPlanets(sname, objs, prim, p) ==
    IF At(objs, p).class = "AS" THEN <<sname, "Asteroid">>
    ELSE <<sname,
           roman[Cardinality({k \in 1..(PrimaryOrder(prim, p) + 1) :
                                At(objs, prim[k]).class # "AS"})]>>

PrimaryName(sname, objs, prim, p) ==
    IF At(objs, p).class = "AS" THEN <<sname, "Asteroid">>
    ELSE <<sname, roman[PrimaryOrder(prim, p) + 1]>>

\* moon_counters_per_parent[parent_idx] when the moon at index m is named
MoonCount(objs, m) ==
    Cardinality({j \in 0..m :
        /\ At(objs, j).is_moon = 1
        /\ At(objs, j).parent_object_id = At(objs, m).parent_object_id})

MoonName(sname, objs, prim, m) ==
    LET parent_idx == At(objs, m).parent_object_id
        base == IF PrimaryOrder(prim, parent_idx) # None
                THEN PrimaryName(sname, objs, prim, parent_idx)
                ELSE <<sname>>
    IN  base \o <<"-", Letter(MoonCount(objs, m))>>

assign_names_for_system(sname, objs, prim) ==
    [i \in 1..Len(objs) |->
        IF PrimaryOrder(prim, i - 1) # None
        THEN [objs[i] EXCEPT !.name = PrimaryName(sname, objs, prim, i - 1)]
        ELSE IF objs[i].is_moon = 1
        THEN [objs[i] EXCEPT !.name = MoonName(sname, objs, prim, i - 1)]
        ELSE objs[i]]

(***************************************************************************)
(* assign_local_coordinates                                                *)
(***************************************************************************)
LOCAL_MAP_SIZE == 50
LOCAL_CENTER_X == LOCAL_MAP_SIZE \div 2
LOCAL_CENTER_Y == LOCAL_MAP_SIZE \div 2
LOCAL_ORBIT_RADII == <<5, 8, 11, 14, 17, 20>>

\* math.cos(2 pi k / 256) * 10^6 for k = 0 .. 64, to the nearest integer
TrigScale == 1000000
CosQuarter ==
    <<1000000, 999699, 998795, 997290, 995185, 992480, 989177, 985278,
      980785, 975702, 970031, 963776, 956940, 949528, 941544, 932993,
      923880, 914210, 903989, 893224, 881921, 870087, 857729, 844854,
      831470, 817585, 803208, 788346, 773010, 757209, 740951, 724247,
      707107, 689541, 671559, 653173, 634393, 615232, 595699, 575808,
      555570, 534998, 514103, 492898, 471397, 449611, 427555, 405241,
      382683, 359895, 336890, 313682, 290285, 266713, 242980, 219101,
      195090, 170962, 146730, 122411, 98017, 73565, 49068, 24541, 0>>

\* math.cos and math.sin of k 256ths of a turn, times TrigScale
Cos256(k) ==
    LET a == k % 256
    IN  IF a <= 64 THEN CosQuarter[a + 1]
        ELSE IF a <= 128 THEN 0 - CosQuarter[128 - a + 1]
        ELSE IF a <= 192 THEN 0 - CosQuarter[a - 128 + 1]
        ELSE CosQuarter[256 - a + 1]

Sin256(k) == Cos256(k + 192)

\* angle = 2 pi (h32 / 2**32), in 256ths of a turn
AngleOf(b4) == b4[1]

\* LOCAL_ORBIT_RADII[min(orbit_idx, len(LOCAL_ORBIT_RADII) - 1)]
OrbitRadius(orbit_idx) ==
    LOCAL_ORBIT_RADII[
        (IF orbit_idx < Len(LOCAL_ORBIT_RADII) - 1
         THEN orbit_idx ELSE Len(LOCAL_ORBIT_RADII) - 1) + 1]

\* the primaries of the list, by `is_moon == 0`, in list order
RECURSIVE PrimariesFrom(_, _)
PrimariesFrom(objs, i) ==
    IF i >= Len(objs) THEN <<>>
    ELSE (IF At(objs, i).is_moon = 0 THEN <<i>> ELSE <<>>)
            \o PrimariesFrom(objs, i + 1)

\* a primary on its ring, at k 256ths of a turn
RingPoint(orbit_idx, k) ==
    LET radius == OrbitRadius(orbit_idx)
        x == RoundHalfEven(LOCAL_CENTER_X * TrigScale + radius * Cos256(k),
                           TrigScale)
        y == RoundHalfEven(LOCAL_CENTER_Y * TrigScale + radius * Sin256(k),
                           TrigScale)
    IN  <<clamp(x, 0, LOCAL_MAP_SIZE - 1), clamp(y, 0, LOCAL_MAP_SIZE - 1)>>

\* the first loop
PrimaryCoordinates(sid, orbit_idx, obj_idx) ==
    RingPoint(orbit_idx, AngleOf(OrbitDigest(sid, obj_idx)))

\* h16 = the first two digest bytes; h16 & 0x03 and (h16 >> 2) & 0x03 are
\* bits of byte 2
MoonOffset(b4) == <<(b4[2] % 4) - 1, ((b4[2] \div 4) % 4) - 1>>

\* a moon at the offset d from (px, py)
BesideParent(px, py, d) ==
    <<clamp(px + d[1], 0, LOCAL_MAP_SIZE - 1),
      clamp(py + d[2], 0, LOCAL_MAP_SIZE - 1)>>

\* the second loop: a moon beside its parent, whose coordinates the first
\* loop has set when the parent is a primary (else the centre is taken)
MoonCoordinates(sid, placed, m) ==
    LET parent == At(placed, At(placed, m).parent_object_id)
        px == IF parent.local_x # Unset THEN parent.local_x ELSE LOCAL_CENTER_X
        py == IF parent.local_y # Unset THEN parent.local_y ELSE LOCAL_CENTER_Y
        d == MoonOffset(MoonDigest(sid, At(placed, m).object_id))
    IN  BesideParent(px, py, d)

\* coordinates for the primaries only
assign_primary_coordinates(sid, objs) ==
    LET prim == PrimariesFrom(objs, 0)
    IN  [i \in 1..Len(objs) |->
            IF objs[i].is_moon = 0
            THEN LET xy == PrimaryCoordinates(sid, PrimaryOrder(prim, i - 1),
                                              i - 1)
                 IN  [objs[i] EXCEPT !.local_x = xy[1], !.local_y = xy[2]]
            ELSE objs[i]]

\* the moons are placed first, beside parents that have no coordinates yet
assign_moons_first(sid, objs) ==
    LET prim == PrimariesFrom(objs, 0)
    IN  [i \in 1..Len(objs) |->
            IF objs[i].is_moon = 1
            THEN LET xy == MoonCoordinates(sid, objs, i - 1)
                 IN  [objs[i] EXCEPT !.local_x = xy[1], !.local_y = xy[2]]
            ELSE LET xy == PrimaryCoordinates(sid, PrimaryOrder(prim, i - 1),
                                              i - 1)
                 IN  [objs[i] EXCEPT !.local_x = xy[1], !.local_y = xy[2]]]

assign_local_coordinates(sid, objs) ==
    LET prim == PrimariesFrom(objs, 0)
        placed == [i \in 1..Len(objs) |->
            IF objs[i].is_moon = 0
            THEN LET xy == PrimaryCoordinates(sid, PrimaryOrder(prim, i - 1),
                                              i - 1)
                 IN  [objs[i] EXCEPT !.local_x = xy[1], !.local_y = xy[2]]
            ELSE objs[i]]
    IN  [i \in 1..Len(placed) |->
            IF placed[i].is_moon = 1
            THEN LET xy == MoonCoordinates(sid, placed, i - 1)
                 IN  [placed[i] EXCEPT !.local_x = xy[1], !.local_y = xy[2]]
            ELSE placed[i]]

(***************************************************************************)
(* generate_objects_for_system                                             *)
(***************************************************************************)
\* the fixed objects with the primaries in front of the moon
HomeObjectsPrimariesFirst ==
    <<MkObject(0, 0, <<"Earth">>, "RP", None, 0),
      MkObject(0, 1, <<"Mars">>, "RP", None, 0),
      MkObject(0, 2, <<"Ceres">>, "AS", None, 0),
      MkObject(0, 3, <<"Luna">>, "RM", 0, 1)>>

\* the fixed objects, and none of them when max_primaries allows none
HomeObjectsWithinBudget ==
    IF max_primaries <= 0 THEN <<>>
    ELSE <<MkObject(0, 0, <<"Earth">>, "RP", None, 0),
           MkObject(0, 1, <<"Luna">>, "RM", 0, 1),
           MkObject(0, 2, <<"Mars">>, "RP", None, 0),
           MkObject(0, 3, <<"Ceres">>, "AS", None, 0)>>

\* the fixed objects of Sol
HomeObjects ==
    <<MkObject(0, 0, <<"Earth">>, "RP", None, 0),
      MkObject(0, 1, <<"Luna">>, "RM", 0, 1),
      MkObject(0, 2, <<"Mars">>, "RP", None, 0),
      MkObject(0, 3, <<"Ceres">>, "AS", None, 0)>>

\* the loop `for obj in objects: ... = compute_attributes(...)`
Decorated(objs, sp) ==
    [i \in 1..Len(objs) |->
        LET a == compute_attributes(objs[i].system_id, objs[i].object_id,
                                    objs[i].class, sp)
        IN  [objs[i] EXCEPT !.habitability = a.habitability,
                            !.risk = a.risk,
                            !.ore_richness = a.ore_richness,
                            !.fuel_richness = a.fuel_richness]]

\* the arguments that the model tries.  The draws of a system other than
\* Sol are any draws, whatever the seed: its calls are made with one seed, one
\* name and one spect.
SystemIdChoices == {0, 1, 2}
SystemNameChoices == {"Sol", "Alpha"}
SeedChoices == {0, 1}
GenSpectChoices == {<<"G", "2", "V">>, <<>>}
MaxPrimariesChoices == (0 - 1)..MaxPrimaryCap

GenArgChoices ==
    {a \in [system_id : SystemIdChoices, system_name : SystemNameChoices,
            spect : GenSpectChoices, global_seed : SeedChoices,
            max_primaries : MaxPrimariesChoices] :
        a.system_id # 0 =>
            /\ a.system_name = "Alpha"
            /\ a.spect = <<"G", "2", "V">>
            /\ a.global_seed = 1}

\* rng.random(), in hundredths
RandomDraws == {0, 19, 20, 99}

InitObjects ==
    /\ CatalogIdle
    /\ AttributesIdle
    /\ RestIdle
    /\ gpc = "call"
    /\ \E a \in GenArgChoices :
          /\ system_id = a.system_id
          /\ system_name = a.system_name
          /\ spect = a.spect
          /\ global_seed = a.global_seed
          /\ max_primaries = a.max_primaries
    /\ objects = <<>>
    /\ primary_indices = <<>>
    /\ primary_budget = 0
    /\ parent_pos = 0
    /\ moons_left = 0

\* a budget that max_primaries does not cap
UncappedBudget(drawn, maxp) == drawn

\* primary_budget = min(primary_budget, max_primaries)
CappedBudget(drawn, maxp) == Min(drawn, maxp)

\* system_id == 0: the fixed objects, their attributes and coordinates
GenerateHome ==
    /\ gpc = "call"
    /\ system_id = 0
    /\ objects' = assign_local_coordinates(system_id,
                                           Decorated(HomeObjects, spect))
    /\ gpc' = "returned"
    /\ UNCHANGED <<genArgs, primary_indices, primary_budget, parent_pos,
                   moons_left, catVars, attrVars, restVars>>

\* 1) rng = random.Random(global_seed ^ (system_id * 0x9E3779B1)), whose
\* draws here and below are any draws; primary_budget is drawn, and the
\* function returns [] when it or max_primaries is not positive
ChooseBudget ==
    /\ gpc = "call"
    /\ system_id # 0
    /\ \E r \in UniformDraws(OBJECT_COUNT_DISTRIBUTION) :
          LET drawn == choose_weighted(r, OBJECT_COUNT_DISTRIBUTION)
          IN  IF drawn <= 0 \/ max_primaries <= 0
              THEN /\ primary_budget' = drawn
                   /\ gpc' = "returned"
              ELSE /\ primary_budget' = CappedBudget(drawn, max_primaries)
                   /\ gpc' = "primaries"
    /\ UNCHANGED <<genArgs, objects, primary_indices, parent_pos, moons_left,
                   catVars, attrVars, restVars>>

\* 2) one round of `for _ in range(primary_budget)`
GenPrimary ==
    /\ gpc = "primaries"
    /\ Len(primary_indices) < primary_budget
    /\ \E r \in UniformDraws(PLANET_TYPE_DISTRIBUTION) :
          LET planet_class == choose_weighted(r, PLANET_TYPE_DISTRIBUTION)
              obj == MkObject(system_id, Len(objects), <<>>, planet_class,
                              None, 0)
          IN  /\ objects' = Append(objects, obj)
              /\ primary_indices' = Append(primary_indices, obj.object_id)
    /\ gpc' = IF Len(primary_indices') < primary_budget
              THEN "primaries" ELSE "asteroid"
    /\ UNCHANGED <<genArgs, primary_budget, parent_pos, moons_left,
                   catVars, attrVars, restVars>>

\* a test that lets a lone primary become the asteroid
AsteroidEligibleAlone(prim) == Len(prim) >= 1

\* if len(primary_indices) >= 2
AsteroidEligible(prim) == Len(prim) >= 2

\* 3) with two primaries or more and rng.random() < 0.20, one primary that
\* rng.choice picks becomes an asteroid
AsteroidSubstitution ==
    /\ gpc = "asteroid"
    /\ IF AsteroidEligible(primary_indices)
       THEN \E u \in RandomDraws :
                IF u < 20
                THEN \E k \in 1..Len(primary_indices) :
                        objects' = [objects EXCEPT
                                      ![primary_indices[k] + 1].class = "AS"]
                ELSE objects' = objects
       ELSE objects' = objects
    /\ gpc' = "moons"
    /\ parent_pos' = 1
    /\ UNCHANGED <<genArgs, primary_indices, primary_budget, moons_left,
                   catVars, attrVars, restVars>>

\* 4) the head of one round of `for parent_idx in primary_indices`: a parent
\* whose class has no entry in MAX_MOONS_PER_CLASS is passed over, for any
\* other num_moons is drawn
BeginParent ==
    /\ gpc = "moons"
    /\ moons_left = 0
    /\ parent_pos <= Len(primary_indices)
    /\ LET parent_class == At(objects, primary_indices[parent_pos]).class
       IN  IF parent_class \notin DOMAIN MAX_MOONS_PER_CLASS
           THEN /\ moons_left' = 0
                /\ parent_pos' = parent_pos + 1
           ELSE \E r \in UniformDraws(NumMoonsTable(parent_class)) :
                   LET num_moons == choose_num_moons(r, parent_class)
                   IN  /\ moons_left' = num_moons
                       /\ parent_pos' = IF num_moons = 0
                                        THEN parent_pos + 1 ELSE parent_pos
    /\ UNCHANGED <<gpc, genArgs, objects, primary_indices, primary_budget,
                   catVars, attrVars, restVars>>

\* one round of `for _ in range(num_moons)`
GenMoon ==
    /\ gpc = "moons"
    /\ moons_left > 0
    /\ LET parent_idx == primary_indices[parent_pos]
           parent_class == At(objects, parent_idx).class
       IN  \E r \in UniformDraws(MoonClassTable(parent_class)) :
              objects' = Append(objects,
                  MkObject(system_id, Len(objects), <<>>,
                           choose_moon_class(r, parent_class), parent_idx, 1))
    /\ moons_left' = moons_left - 1
    /\ parent_pos' = IF moons_left' = 0 THEN parent_pos + 1 ELSE parent_pos
    /\ UNCHANGED <<gpc, genArgs, primary_indices, primary_budget,
                   catVars, attrVars, restVars>>

\* 5) names, 6) attributes, 7) coordinates, and the return
Finish ==
    /\ gpc = "moons"
    /\ moons_left = 0
    /\ parent_pos > Len(primary_indices)
    /\ objects' = assign_local_coordinates(system_id,
                    Decorated(assign_names_for_system(system_name, objects,
                                                      primary_indices),
                              spect))
    /\ gpc' = "returned"
    /\ UNCHANGED <<genArgs, primary_indices, primary_budget, parent_pos,
                   moons_left, catVars, attrVars, restVars>>

NextObjects ==
    \/ GenerateHome
    \/ ChooseBudget
    \/ GenPrimary
    \/ AsteroidSubstitution
    \/ BeginParent
    \/ GenMoon
    \/ Finish

SpecObjects == InitObjects /\ [][NextObjects]_vars

(***************************************************************************)
(* The calls of generate_objects_for_system for the systems of a catalog,  *)
(* side by side.  A call is a record of its arguments and locals; its rng  *)
(* is an object of the heap `rngs`.                                        *)
(***************************************************************************)
\* rng_seed = global_seed ^ (system_id * 0x9E3779B1), a function of the two,
\* kept as the pair
RngSeed(gseed, sid) == <<gseed, sid>>

\* random.Random(seed).random(), the draw number k (from 0), in hundredths.
\* The Mersenne Twister itself is not computed: a fixed function of seed and
\* k stands in its place.
RandomOf(seed, k) ==
    ((seed[1] * 53 + seed[2] * 29 + k * k * 7 + k * 41 + 11) * 37) % 100

\* an rng that was not made yet
NoRng == [seed |-> <<0, 0>>, pos |-> 0]

\* the next draw of the rng object ref, and the heap after it
Draw(rs, ref) == RandomOf(rs[ref].seed, rs[ref].pos)
Advance(rs, ref) == [rs EXCEPT ![ref].pos = @ + 1]

\* rng.uniform(0, total)
Uniform(rs, ref, table) == (Draw(rs, ref) * SumWeights(table)) \div 100

\* one rng object for all calls, as the functions of the module `random` are
ModuleRandom(i) == 1

\* rng = random.Random(rng_seed): an object of the call
NewRng(i) == i

InitialCall(args, ref) ==
    [args |-> args, pc |-> "call", rng |-> ref, objects |-> <<>>,
     primary_indices |-> <<>>, primary_budget |-> 0, parent_pos |-> 0,
     moons_left |-> 0]

\* one step of a call c on the heap rs: the call and the heap after it
CallStep(c, rs) ==
    LET a == c.args
        sid == a.system_id
    IN
    CASE c.pc = "call" ->
           IF sid = 0
           THEN [call |-> [c EXCEPT
                    !.objects = assign_local_coordinates(sid,
                                    Decorated(HomeObjects, a.spect)),
                    !.pc = "returned"],
                 rngs |-> rs]
           ELSE [call |-> [c EXCEPT !.pc = "budget"],
                 rngs |-> [rs EXCEPT ![c.rng] =
                             [seed |-> RngSeed(a.global_seed, sid),
                              pos |-> 0]]]
      [] c.pc = "budget" ->
           LET drawn == choose_weighted(
                            Uniform(rs, c.rng, OBJECT_COUNT_DISTRIBUTION),
                            OBJECT_COUNT_DISTRIBUTION)
           IN  [call |-> IF drawn <= 0 \/ a.max_primaries <= 0
                         THEN [c EXCEPT !.primary_budget = drawn,
                                        !.pc = "returned"]
                         ELSE [c EXCEPT
                                 !.primary_budget =
                                     CappedBudget(drawn, a.max_primaries),
                                 !.pc = "primaries"],
                rngs |-> Advance(rs, c.rng)]
      [] c.pc = "primaries" ->
           LET planet_class == choose_weighted(
                                   Uniform(rs, c.rng, PLANET_TYPE_DISTRIBUTION),
                                   PLANET_TYPE_DISTRIBUTION)
               obj == MkObject(sid, Len(c.objects), <<>>, planet_class,
                               None, 0)
               made == Append(c.primary_indices, obj.object_id)
           IN  [call |-> [c EXCEPT
                    !.objects = Append(@, obj),
                    !.primary_indices = made,
                    !.pc = IF Len(made) < c.primary_budget
                           THEN "primaries" ELSE "asteroid"],
                rngs |-> Advance(rs, c.rng)]
      [] c.pc = "asteroid" ->
           IF AsteroidEligible(c.primary_indices)
           THEN IF Draw(rs, c.rng) < 20
                THEN LET rs1 == Advance(rs, c.rng)
                         k == (Draw(rs1, c.rng) % Len(c.primary_indices)) + 1
                     IN  [call |-> [c EXCEPT
                              !.objects[c.primary_indices[k] + 1].class = "AS",
                              !.pc = "moons", !.parent_pos = 1],
                          rngs |-> Advance(rs1, c.rng)]
                ELSE [call |-> [c EXCEPT !.pc = "moons", !.parent_pos = 1],
                      rngs |-> Advance(rs, c.rng)]
           ELSE [call |-> [c EXCEPT !.pc = "moons", !.parent_pos = 1],
                 rngs |-> rs]
      [] c.pc = "moons" /\ c.moons_left = 0
                        /\ c.parent_pos <= Len(c.primary_indices) ->
           LET parent_class ==
                   At(c.objects, c.primary_indices[c.parent_pos]).class
           IN  IF parent_class \notin DOMAIN MAX_MOONS_PER_CLASS
               THEN [call |-> [c EXCEPT !.parent_pos = @ + 1], rngs |-> rs]
               ELSE LET num_moons == choose_num_moons(
                            Uniform(rs, c.rng, NumMoonsTable(parent_class)),
                            parent_class)
                    IN  [call |-> [c EXCEPT
                             !.moons_left = num_moons,
                             !.parent_pos = IF num_moons = 0
                                            THEN @ + 1 ELSE @],
                         rngs |-> Advance(rs, c.rng)]
      [] c.pc = "moons" /\ c.moons_left > 0 ->
           LET parent_idx == c.primary_indices[c.parent_pos]
               parent_class == At(c.objects, parent_idx).class
               moon_class == choose_moon_class(
                                 Uniform(rs, c.rng,
                                         MoonClassTable(parent_class)),
                                 parent_class)
           IN  [call |-> [c EXCEPT
                    !.objects = Append(@, MkObject(sid, Len(c.objects), <<>>,
                                                   moon_class, parent_idx, 1)),
                    !.moons_left = @ - 1,
                    !.parent_pos = IF c.moons_left = 1 THEN @ + 1 ELSE @],
                rngs |-> Advance(rs, c.rng)]
      [] OTHER ->
           [call |-> [c EXCEPT
                !.objects = assign_local_coordinates(sid,
                    Decorated(assign_names_for_system(a.system_name,
                                  c.objects, c.primary_indices), a.spect)),
                !.pc = "returned"],
            rngs |-> rs]

\* a call made alone, from its first step to its return
RECURSIVE RunAlone(_, _)
RunAlone(c, rs) ==
    IF c.pc = "returned" THEN c.objects
    ELSE LET after == CallStep(c, rs)
         IN  RunAlone(after.call, after.rngs)

generate_objects_for_system(args) ==
    RunAlone(InitialCall(args, 1), <<NoRng>>)

\* the systems of a catalog: their ids (an id may come twice), each with the
\* name and spect of its row; all are generated with one seed and one
\* max_primaries
CatalogIdChoices == {0, 1, 2}
CatalogSeedChoices == {0, 1}

SystemNameOf(sid) ==
    CASE sid = 0 -> "Sol" [] sid = 1 -> "Alpha" [] OTHER -> "Beta"

SystemArgs(sid, gseed) ==
    [system_id |-> sid, system_name |-> SystemNameOf(sid),
     spect |-> <<"G", "2", "V">>, global_seed |-> gseed,
     max_primaries |-> MaxPrimaryCap]

CatalogChoices ==
    UNION {[1..n -> CatalogIdChoices] : n \in 1..MaxSystems}

InitSystems ==
    /\ CatalogIdle
    /\ GeneratorIdle
    /\ AttributesIdle
    /\ LoaderIdle
    /\ GenMainIdle
    /\ ArtifactsIdle
    /\ \E ids \in CatalogChoices, gseed \in CatalogSeedChoices :
          calls = [i \in 1..Len(ids) |->
                      InitialCall(SystemArgs(ids[i], gseed), NewRng(i))]
    /\ rngs = [i \in 1..Len(calls) |-> NoRng]

\* the call i does its next step
Stepped(i) ==
    LET after == CallStep(calls[i], rngs)
    IN  /\ calls' = [calls EXCEPT ![i] = after.call]
        /\ rngs' = after.rngs
        /\ UNCHANGED <<catVars, genVars, attrVars, loadVars, mainVars,
                     artVars>>

\* the head of a call: the home system, or the making of the rng
StartCall ==
    \E i \in 1..Len(calls) : calls[i].pc = "call" /\ Stepped(i)

\* a step of a call that draws from its rng
DrawInCall ==
    \E i \in 1..Len(calls) :
        /\ calls[i].pc \in {"budget", "primaries", "asteroid", "moons"}
        /\ ~(/\ calls[i].pc = "moons"
             /\ calls[i].moons_left = 0
             /\ calls[i].parent_pos > Len(calls[i].primary_indices))
        /\ Stepped(i)

\* names, attributes, coordinates and the return
FinishCall ==
    \E i \in 1..Len(calls) :
        /\ calls[i].pc = "moons"
        /\ calls[i].moons_left = 0
        /\ calls[i].parent_pos > Len(calls[i].primary_indices)
        /\ Stepped(i)

NextSystems == StartCall \/ DrawInCall \/ FinishCall

SpecSystems == InitSystems /\ [][NextSystems]_vars

(***************************************************************************)
(* load_hyg_csv.  A column of a row is empty, not a number, or a number;   *)
(* light-years are kept in units of 10^-5 ly.                              *)
(***************************************************************************)
\* PC_TO_LY = 3.26156, times 10^5
PC_TO_LY == 326156

\* math.sqrt, exact on the squares that the rows of the model give
ISqrt(n) == CHOOSE r \in 0..n : r * r <= n /\ (r + 1) * (r + 1) > n

\* `x_pc_str and y_pc_str and z_pc_str`
FullPosition(row) == row.x # NoNum /\ row.y # NoNum /\ row.z # NoNum

\* float() raises ValueError on one of the coordinates
BadPosition(row) == row.x = BadNum \/ row.y = BadNum \/ row.z = BadNum

\* dist_pc of a row that the loop does not leave: the column, else the norm
\* of the position
DistPc(row) ==
    IF row.dist # NoNum THEN row.dist.v
    ELSE ISqrt(row.x.v * row.x.v + row.y.v * row.y.v + row.z.v * row.z.v)

\* the body of the loop for one row: <<>> when `continue` is reached, by the
\* test of line 122 or by a ValueError, else the dict that is appended
load_row(row) ==
    IF row.dist = NoNum /\ ~FullPosition(row) THEN <<>>
    ELSE IF row.dist = NoNum /\ BadPosition(row) THEN <<>>
    ELSE IF row.dist = BadNum THEN <<>>
    ELSE IF FullPosition(row) /\ BadPosition(row) THEN <<>>
    ELSE LET dist_pc == DistPc(row)
             pos == IF FullPosition(row)
                    THEN <<row.x.v, row.y.v, row.z.v>>
                    ELSE <<dist_pc, 0, 0>>
         IN  <<[id |-> row.id, proper |-> row.proper,
                dist_pc |-> dist_pc, dist_ly |-> dist_pc * PC_TO_LY,
                x_ly |-> pos[1] * PC_TO_LY, y_ly |-> pos[2] * PC_TO_LY,
                z_ly |-> pos[3] * PC_TO_LY, lum |-> row.lum]>>

\* a loader that gives up at the first row it cannot use
RECURSIVE load_until_bad(_)
load_until_bad(rows) ==
    IF rows = <<>> THEN <<>>
    ELSE IF load_row(Head(rows)) = <<>> THEN <<>>
    ELSE load_row(Head(rows)) \o load_until_bad(Tail(rows))

RECURSIVE load_hyg_csv(_)
load_hyg_csv(rows) ==
    IF rows = <<>> THEN <<>>
    ELSE load_row(Head(rows)) \o load_hyg_csv(Tail(rows))

\* the rows of an input file: with or without a distance, with a full or a
\* partial position, with columns that are not numbers
RawRowKinds ==
    {k \in [dist : {NoNum, BadNum, Num(5)}, x : {NoNum, BadNum, Num(3)},
            y : {Num(4)}, z : {NoNum, Num(0)}, lum : {NoNum, BadNum}] :
        k.lum = BadNum => (k.dist = Num(5) /\ k.x = Num(3) /\ k.z = Num(0))}

RawRows(kinds) ==
    [i \in 1..Len(kinds) |->
        [id |-> i, proper |-> "", dist |-> kinds[i].dist, x |-> kinds[i].x,
         y |-> kinds[i].y, z |-> kinds[i].z, lum |-> kinds[i].lum]]

InitLoader ==
    /\ CatalogIdle
    /\ GeneratorIdle
    /\ AttributesIdle
    /\ SystemsIdle
    /\ GenMainIdle
    /\ ArtifactsIdle
    /\ lpc = "call"
    /\ \E kinds \in InputsOf(RawRowKinds) : raw_rows = RawRows(kinds)
    /\ loaded = <<>>

LoadRows ==
    /\ lpc = "call"
    /\ loaded' = load_hyg_csv(raw_rows)
    /\ lpc' = "returned"
    /\ UNCHANGED <<raw_rows, catVars, genVars, attrVars, sysVars, mainVars,
                   artVars>>

NextLoader == LoadRows

SpecLoader == InitLoader /\ [][NextLoader]_vars

(***************************************************************************)
(* generate_system_objects.main                                            *)
(***************************************************************************)
\* reader.fieldnames: None for a file without a header row, else the names
NoHeader == [none |-> TRUE, names |-> {}]
Header(names) == [none |-> FALSE, names |-> names]

required_cols == {"id", "proper", "spect"}

HeaderChoices ==
    {NoHeader, Header({"proper", "spect"}), Header({"id", "proper"}),
     Header({"id", "proper", "spect"}),
     Header({"id", "proper", "spect", "dist_ly"})}

\* the rows of the star CSV: an id that is an integer or not, with or without
\* a name
StarRowKinds ==
    [id : {Num(0), Num(1), Num(2), BadNum}, proper : {"", "Alpha"}]

\* f"System {system_id}"
SystemLabel(sid) ==
    CASE sid = 0 -> "System 0" [] sid = 1 -> "System 1" [] OTHER -> "System 2"

\* the loop `for row in reader`: a row whose id is not an integer is passed
\* over, a row without a name is named after its id
RECURSIVE StarsOf(_)
StarsOf(rows) ==
    IF rows = <<>> THEN <<>>
    ELSE (IF Head(rows).id.k # "num" THEN <<>>
          ELSE <<[id |-> Head(rows).id.v,
                  proper |-> IF Strip(Head(rows).proper) = ""
                             THEN SystemLabel(Head(rows).id.v)
                             ELSE Strip(Head(rows).proper),
                  spect |-> <<"G", "2", "V">>]>>)
         \o StarsOf(Tail(rows))

\* the loop `for star in stars`: all_objects.extend(objects)
RECURSIVE ObjectsOfAll(_, _, _)
ObjectsOfAll(s, gseed, maxp) ==
    IF s = <<>> THEN <<>>
    ELSE generate_objects_for_system(
             [system_id |-> Head(s).id, system_name |-> Head(s).proper,
              spect |-> Head(s).spect, global_seed |-> gseed,
              max_primaries |-> maxp])
         \o ObjectsOfAll(Tail(s), gseed, maxp)

InitGenMain ==
    /\ CatalogIdle
    /\ GeneratorIdle
    /\ AttributesIdle
    /\ SystemsIdle
    /\ LoaderIdle
    /\ ArtifactsIdle
    /\ mpc = "start"
    /\ fieldnames \in HeaderChoices
    /\ star_rows \in UNION {[1..n -> StarRowKinds] : n \in 0..MaxSystems}
    /\ gen_stars = <<>>
    /\ all_objects = <<>>
    /\ out_rows = NotOpened

\* missing = required_cols - set(reader.fieldnames)
MissingColumns(header) == required_cols \ header.names

\* the header tests, each a SystemExit
ReadHeader ==
    /\ mpc = "start"
    /\ mpc' = IF fieldnames.none THEN "exit_no_header"
              ELSE IF MissingColumns(fieldnames) # {}
              THEN "exit_missing_columns"
              ELSE "read"
    /\ UNCHANGED <<fieldnames, star_rows, gen_stars, all_objects, out_rows,
                   catVars, genVars, attrVars, sysVars, loadVars,
                   artVars>>

ReadStars ==
    /\ mpc = "read"
    /\ gen_stars' = StarsOf(star_rows)
    /\ mpc' = "generate"
    /\ UNCHANGED <<fieldnames, star_rows, all_objects, out_rows,
                   catVars, genVars, attrVars, sysVars, loadVars,
                   artVars>>

\* args.seed is 0 and args.max_objects_per_system is MaxPrimaryCap
GenerateAll ==
    /\ mpc = "generate"
    /\ all_objects' = ObjectsOfAll(gen_stars, 0, MaxPrimaryCap)
    /\ mpc' = "generated"
    /\ UNCHANGED <<fieldnames, star_rows, gen_stars, out_rows,
                   catVars, genVars, attrVars, sysVars, loadVars,
                   artVars>>

\* the output CSV is opened, the header and one row per object are written
WriteObjects ==
    /\ mpc = "generated"
    /\ out_rows' = [opened |-> TRUE, rows |-> all_objects]
    /\ mpc' = "done"
    /\ UNCHANGED <<fieldnames, star_rows, gen_stars, all_objects,
                   catVars, genVars, attrVars, sysVars, loadVars,
                   artVars>>

NextGenMain == ReadHeader \/ ReadStars \/ GenerateAll \/ WriteObjects

SpecGenMain == InitGenMain /\ [][NextGenMain]_vars

\* a run of one of the two programs
InitRuns == InitCatalog \/ InitGenMain

NextRuns ==
    \/ CheckScale \/ LoadUnnamed \/ Select \/ Project \/ WriteCsv \/ WriteMap
    \/ NextGenMain

SpecRuns == InitRuns /\ [][NextRuns]_vars

(***************************************************************************)
(* One call of compute_attributes                                          *)
(***************************************************************************)
ClassChoices == {"RP", "DP", "IC", "GG", "RM", "IM", "AS", "XX"}

AttrSpectChoices ==
    {<<>>, <<"2", "3">>, <<"G", "2", "V">>, <<"m", "5">>, <<"5", "K">>,
     <<"D", "A">>, <<"O">>, <<"B", "3">>, <<"a">>, <<"F">>}

\* digests: both nibbles of byte 4 at their ends and in the middle, bytes 3
\* and 2 on each side of every threshold of the ore and fuel tiers
NibbleChoices == {0, 8, 15}
OreByteChoices ==
    {0, 24, 25, 79, 80, 99, 100, 179, 180, 199, 200, 229, 230, 255}
FuelByteChoices == {0, 39, 40, 127, 128, 159, 160, 229, 230, 255}

DigestChoices ==
    {<<0, f, o, 16 * hi + lo>> :
        f \in FuelByteChoices, o \in OreByteChoices,
        hi \in NibbleChoices, lo \in NibbleChoices}

InitAttributes ==
    /\ CatalogIdle
    /\ GeneratorIdle
    /\ RestIdle
    /\ apc = "call"
    /\ attr_args \in [system_id : {0, 7}, object_id : {3},
                      obj_class : ClassChoices, spect : AttrSpectChoices]
    /\ attr_digest = <<0, 0, 0, 0>>
    /\ attr_result = NoAttributes

\* compute_attributes, its digest being any digest
ComputeAttributes ==
    /\ apc = "call"
    /\ \E b4 \in DigestChoices :
          /\ attr_digest' = b4
          /\ attr_result' = AttributesOf(b4, attr_args.obj_class,
                                         attr_args.spect)
    /\ apc' = "returned"
    /\ UNCHANGED <<attr_args, catVars, genVars, restVars>>

NextAttributes == ComputeAttributes

SpecAttributes == InitAttributes /\ [][NextAttributes]_vars

\* a call of compute_attributes by itself, or a call of
\* generate_objects_for_system, which calls it for every object
InitDecorate == InitAttributes \/ InitObjects

NextDecorate == NextAttributes \/ NextObjects

SpecDecorate == InitDecorate /\ [][NextDecorate]_vars

(***************************************************************************)
(* Claims about the object generator                                       *)
(***************************************************************************)
MoonHosts == {"RP", "DP", "IC", "GG"}

\* C7: in every returned list each moon's parent_object_id is the object_id
\* of a non-moon of the list whose class is RP, DP, IC or GG; no AS object is
\* the parent of any object.
C7_Hierarchy ==
    gpc = "returned" =>
        /\ \A i \in 1..Len(objects) :
              objects[i].is_moon = 1 =>
                  \E j \in 1..Len(objects) :
                      /\ objects[j].object_id = objects[i].parent_object_id
                      /\ objects[j].system_id = objects[i].system_id
                      /\ objects[j].is_moon = 0
                      /\ objects[j].class \in MoonHosts
        /\ \A i, j \in 1..Len(objects) :
              objects[j].class = "AS" =>
                  objects[i].parent_object_id # objects[j].object_id

\* a generated system with an asteroid and a moon
C7_Witness ==
    /\ gpc = "returned"
    /\ system_id # 0
    /\ \E i, j \in 1..Len(objects) :
          /\ objects[i].class = "AS"
          /\ objects[j].is_moon = 1

\* C8: habitability and risk are in 0..100, ore_richness and fuel_richness
\* in 0..3, and a GG object has ore_richness 0, for any spect and class.
C8_BoundedAttributes ==
    apc = "returned" =>
        /\ attr_result.habitability \in 0..100
        /\ attr_result.risk \in 0..100
        /\ attr_result.ore_richness \in 0..3
        /\ attr_result.fuel_richness \in 0..3
        /\ attr_args.obj_class = "GG" => attr_result.ore_richness = 0

\* a gas giant of an O star: the sum for habitability is below 0, the sum
\* for risk above 100, the ore byte the largest
C8_Witness ==
    /\ apc = "returned"
    /\ attr_args.obj_class = "GG"
    /\ attr_args.spect = <<"O">>
    /\ LowNibble(attr_digest) = 0
    /\ HighNibble(attr_digest) = 15
    /\ OreByte(attr_digest) = 255
    /\ attr_result.habitability = 0
    /\ attr_result.risk = 100

\* C9: system 0 is Earth (RP), Luna (RM, moon of object 0), Mars (RP) and
\* Ceres (AS), objects 0 to 3 in this order, whatever the seed, the system
\* name, the spect and max_primaries.
C9_HomeSystem ==
    (gpc = "returned" /\ system_id = 0) =>
        /\ Len(objects) = 4
        /\ \A i \in 1..4 : objects[i].object_id = i - 1
        /\ \A i \in 1..4 : objects[i].system_id = 0
        /\ <<objects[1].name, objects[2].name, objects[3].name,
             objects[4].name>>
              = <<<<"Earth">>, <<"Luna">>, <<"Mars">>, <<"Ceres">>>>
        /\ <<objects[1].class, objects[2].class, objects[3].class,
             objects[4].class>> = <<"RP", "RM", "RP", "AS">>
        /\ <<objects[1].is_moon, objects[2].is_moon, objects[3].is_moon,
             objects[4].is_moon>> = <<0, 1, 0, 0>>
        /\ objects[2].parent_object_id = 0
        /\ \A i \in {1, 3, 4} : objects[i].parent_object_id = None

\* the home system generated under another name, seed and spect, with no
\* room for a primary
C9_Witness ==
    /\ gpc = "returned"
    /\ system_id = 0
    /\ system_name = "Alpha"
    /\ global_seed = 1
    /\ spect = <<>>
    /\ max_primaries = 0
    /\ Len(objects) = 4

PrimaryCount == Cardinality({i \in 1..Len(objects) : objects[i].is_moon = 0})

C10_WitnessEmpty ==
    /\ gpc = "returned"
    /\ system_id # 0
    /\ max_primaries < 0
    /\ primary_budget > 0
    /\ objects = <<>>

\* the moons of the list whose parent is the object p
MoonsOf(p) ==
    Cardinality({i \in 1..Len(objects) :
                    objects[i].is_moon = 1 /\ objects[i].parent_object_id = p})

\* C11: in every generated system a primary whose final class is RP, DP or
\* IC is the parent of at most 1 moon, and one whose final class is GG of at
\* most 3 moons.
C11_MoonLimits ==
    gpc = "returned" =>
        \A j \in 1..Len(objects) :
            objects[j].is_moon = 0 =>
                /\ objects[j].class \in {"RP", "DP", "IC"}
                      => MoonsOf(objects[j].object_id) <= 1
                /\ objects[j].class = "GG" => MoonsOf(objects[j].object_id) <= 3

\* a gas giant with three moons beside a primary that became an asteroid
C11_Witness ==
    /\ gpc = "returned"
    /\ system_id # 0
    /\ \E j, k \in 1..Len(objects) :
          /\ objects[j].class = "GG"
          /\ MoonsOf(objects[j].object_id) = 3
          /\ objects[k].class = "AS"

\* C15: in every returned list the object at position i has object_id i,
\* every object carries the system_id of the call, and every moon's
\* parent_object_id is smaller than its own object_id.
C15_DenseObjectIds ==
    gpc = "returned" =>
        \A i \in 1..Len(objects) :
            /\ objects[i].object_id = i - 1
            /\ objects[i].system_id = system_id
            /\ objects[i].is_moon = 1
                  => objects[i].parent_object_id < objects[i].object_id

\* a generated system of two primaries, the second one with a moon
C15_Witness ==
    /\ gpc = "returned"
    /\ system_id = 2
    /\ Len(objects) = 3
    /\ objects[3].is_moon = 1
    /\ objects[3].parent_object_id = 1

\* C16: in every returned list, that of system 0 included, every object
\* with is_moon = 0 has a smaller object_id than every object with
\* is_moon = 1.
C16_PrimariesBeforeMoons ==
    gpc = "returned" =>
        \A i, j \in 1..Len(objects) :
            (objects[i].is_moon = 0 /\ objects[j].is_moon = 1)
                => objects[i].object_id < objects[j].object_id

\* angles of a ring, in 256ths of a turn: the axes, the diagonals and the
\* angles half way between them
RingAngleChoices == {16 * n : n \in 0..15}

OnLocalMap(xy) ==
    xy[1] \in 0..(LOCAL_MAP_SIZE - 1) /\ xy[2] \in 0..(LOCAL_MAP_SIZE - 1)

\* C17: every returned object has local_x and local_y in 0..49; none is
\* left without coordinates.  The same holds of the coordinates that any
\* other digest would give an object of the list: a primary at any angle of
\* its ring, a moon at any offset from its parent.
C17_LocalCoordinates ==
    gpc = "returned" =>
        \A i \in 1..Len(objects) :
            /\ OnLocalMap(<<objects[i].local_x, objects[i].local_y>>)
            /\ objects[i].is_moon = 0 =>
                  \A k \in RingAngleChoices :
                      OnLocalMap(RingPoint(
                          PrimaryOrder(PrimariesFrom(objects, 0), i - 1), k))
            /\ objects[i].is_moon = 1 =>
                  \A b \in 0..15 :
                      LET parent == At(objects, objects[i].parent_object_id)
                      IN  OnLocalMap(BesideParent(parent.local_x,
                                                  parent.local_y,
                                                  MoonOffset(<<0, b, 0, 0>>)))

\* a generated system with a moon that is not on its parent's cell
C17_Witness ==
    /\ gpc = "returned"
    /\ system_id # 0
    /\ \E i, j \in 1..Len(objects) :
          /\ objects[i].is_moon = 1
          /\ objects[j].object_id = objects[i].parent_object_id
          /\ <<objects[i].local_x, objects[i].local_y>>
                # <<objects[j].local_x, objects[j].local_y>>

\* C18: in every returned list parent_object_id is None for the objects
\* with is_moon = 0 and is not None for the objects with is_moon = 1.
C18_ParentIffMoon ==
    gpc = "returned" =>
        \A i \in 1..Len(objects) :
            (objects[i].parent_object_id # None) <=> (objects[i].is_moon = 1)

\* a generated system with a moon, a planet and an asteroid
C18_Witness ==
    /\ gpc = "returned"
    /\ system_id # 0
    /\ \E i, j, k \in 1..Len(objects) :
          /\ objects[i].is_moon = 1 /\ objects[i].parent_object_id # None
          /\ objects[j].is_moon = 0 /\ objects[j].class = "AS"
          /\ objects[k].is_moon = 0 /\ objects[k].class # "AS"

(***************************************************************************)
(* Claims about the choice in a cell without the home star                 *)
(***************************************************************************)
\* the selected star s is on the map, in a cell where the home star is not
InCellWithoutSol(s) ==
    /\ OnMap(s)
    /\ \A k \in 1..Len(SelectedInput) :
          SelectedInput[k].is_sol => CellOf(SelectedInput[k]) # CellOf(s)

Named(s) == Strip(s.proper) # ""

Survives(s) == \E i \in 1..Len(stars) : stars[i].id = s.id

\* C19: in a cell without the home star, among occupants of the same name
\* status, one with a luminosity beats every one without, and among those
\* without a luminosity one with a magnitude, of any sign, beats every one
\* that has neither.
C19_LumThenMagThenDistance ==
    cpc = "projected" =>
        \A a, b \in 1..Len(SelectedInput) :
            LET s == SelectedInput[a]
                t == SelectedInput[b]
            IN  (/\ InCellWithoutSol(s)
                 /\ CellOf(t) = CellOf(s)
                 /\ Named(s) <=> Named(t)
                 /\ t.lum.k # "num"
                 /\ \/ s.lum.k = "num"
                    \/ s.mag.k = "num" /\ t.mag.k # "num")
                    => ~Survives(t)

\* C20: in a cell without the home star that has a named occupant the
\* survivor is named, also when an unnamed occupant has the larger size
\* metric.
C20_NamedPreferred ==
    cpc = "projected" =>
        \A a \in 1..Len(SelectedInput) :
            LET s == SelectedInput[a]
            IN  (InCellWithoutSol(s) /\ Named(s)) =>
                    \A i \in 1..Len(stars) :
                        <<stars[i].grid_x, stars[i].grid_y>> = CellOf(s)
                            => Named(stars[i])

\* a named star without lum and mag keeps the cell it shares with an unnamed
\* star that has a luminosity
C20_Witness ==
    /\ cpc = "projected"
    /\ \E a, b \in 1..Len(SelectedInput) :
          LET s == SelectedInput[a]
              t == SelectedInput[b]
          IN  /\ InCellWithoutSol(s)
              /\ CellOf(t) = CellOf(s)
              /\ Named(s) /\ s.lum = NoNum /\ s.mag = NoNum
              /\ ~Named(t) /\ t.lum.k = "num"
              /\ Survives(s)
              /\ ~Survives(t)

(***************************************************************************)
(* Claims about systems generated side by side                             *)
(***************************************************************************)
\* C12: the list a call returns is the list that the same arguments give
\* when the system is generated alone, in whatever order the steps of the
\* calls of a catalog follow each other.
C12_SystemsIndependent ==
    \A i \in 1..Len(calls) :
        calls[i].pc = "returned" =>
            calls[i].objects = generate_objects_for_system(calls[i].args)

\* two systems other than Sol: the first has returned a list with a moon
\* while the second, whose rng has given draws, is still making moons
C12_Witness ==
    /\ Len(calls) = 2
    /\ calls[1].args.system_id # 0
    /\ calls[2].args.system_id # 0
    /\ calls[1].args.system_id # calls[2].args.system_id
    /\ calls[1].pc = "returned"
    /\ \E k \in 1..Len(calls[1].objects) : calls[1].objects[k].is_moon = 1
    /\ calls[2].pc = "moons"
    /\ rngs[2].pos >= 2

(***************************************************************************)
(* Claims about load_hyg_csv                                               *)
(***************************************************************************)
\* a row with a numeric column that is not a number, or with neither a
\* distance nor a full position
Unusable(row) ==
    \/ row.dist = BadNum \/ BadPosition(row)
    \/ row.dist = NoNum /\ ~FullPosition(row)

LeftOut(row) ==
    \/ row.dist = BadNum
    \/ row.dist = NoNum /\ ~FullPosition(row)
    \/ FullPosition(row) /\ BadPosition(row)

FatalCatalogExits ==
    {"exit_scale", "exit_no_input", "exit_no_stars", "exit_all_pruned"}

FatalGenExits == {"exit_no_header", "exit_missing_columns"}

NoCatalogOutput == outputs = {} /\ csv_rows = <<>> /\ ascii_map = NoMap

\* C13: a run that ends in a fatal error has written no output file.  In
\* the catalog builder a scale <= 0, no star loaded or within the radius, or
\* no star left by the projection, end the run before write_star_csv and
\* write_ascii_map; in the object generator a missing header or a missing
\* required column ends it before the output CSV is opened.
C13_NoOutputOnFatalError ==
    /\ cpc \in FatalCatalogExits => NoCatalogOutput
    /\ (cpc # "idle" /\ scale.num <= 0) => NoCatalogOutput
    /\ (/\ cpc \notin {"idle", "start", "load"}
        /\ scale.num > 0
        /\ \/ SelectedInput = <<>>
           \/ project_to_grid(SelectedInput, scale) = <<>>)
          => /\ NoCatalogOutput
             /\ cpc \in FatalCatalogExits \cup {"loaded", "selected"}
    /\ mpc \in FatalGenExits => out_rows = NotOpened
    /\ (mpc # "idle" /\ (fieldnames.none \/ MissingColumns(fieldnames) # {}))
          => out_rows = NotOpened /\ mpc \in FatalGenExits \cup {"start"}

\* the catalog builder has stopped: stars were selected, none is on the map
C13_Witness ==
    /\ cpc = "exit_all_pruned"
    /\ SelectedInput # <<>>
    /\ NoCatalogOutput

\* the catalog builder has stopped on its scale
C13_WitnessScale == cpc = "exit_scale" /\ scale.num = 0 /\ NoCatalogOutput

\* the catalog builder has stopped on an input file that does not exist
C13_WitnessNoInput == cpc = "exit_no_input" /\ NoCatalogOutput

\* the catalog builder has stopped on an empty catalog
C13_WitnessNoStars ==
    cpc = "exit_no_stars" /\ stars_all = <<>> /\ NoCatalogOutput

\* the object generator has stopped on a header without the column id, its
\* input having rows
C13_WitnessColumns ==
    /\ mpc = "exit_missing_columns"
    /\ "id" \notin fieldnames.names
    /\ star_rows # <<>>
    /\ out_rows = NotOpened

\* both programs do write their files when nothing is wrong
C13_WitnessWritten ==
    \/ cpc = "done" /\ outputs = {"csv", "map"}
    \/ mpc = "done" /\ out_rows.opened /\ out_rows.rows # <<>>

(***************************************************************************)
(* Claims about the map                                                    *)
(***************************************************************************)
\* the rows and columns looked at: the corners, the centre and its
\* surroundings
ProbeCoords == {0, 49, 50, 51, 52, 99}

MapAt(gx, gy) == MapChar(ascii_map, gx, gy, scale, radius_ly)

StarAt(gx, gy) ==
    \E i \in 1..Len(stars) : stars[i].grid_x = gx /\ stars[i].grid_y = gy

\* farther from the home star's cell, in light-years, than radius_ly
BeyondRadius(gx, gy, hx, hy) ==
    ((gx - hx) * (gx - hx) + (gy - hy) * (gy - hy)) * scale.num * scale.num
        > radius_ly * radius_ly * scale.den * scale.den

\* C21: on the map that write_ascii_map wrote every cell is one of 'X', '*',
\* '.', ' '; exactly one cell is 'X', the cell of the home star; the cell of
\* every other star is '*'; a cell without a star is ' ' when it is farther
\* from the home star's cell than radius_ly and '.' otherwise; and no cell
\* of a star is ' '.
C21_AsciiMap ==
    cpc = "done" =>
        \E h \in 1..Len(stars) :
            /\ stars[h].is_sol
            /\ \A i \in 1..Len(stars) : stars[i].is_sol => i = h
            /\ stars[h].grid_x \in 0..99 /\ stars[h].grid_y \in 0..99
            /\ MapAt(stars[h].grid_x, stars[h].grid_y) = "X"
            /\ \A i \in 1..Len(stars) :
                  i # h => MapAt(stars[i].grid_x, stars[i].grid_y) = "*"
            /\ \A gx, gy \in ProbeCoords :
                  LET ch == MapAt(gx, gy)
                  IN  /\ ch \in {"X", "*", ".", " "}
                      /\ ch = "X" <=>
                            gx = stars[h].grid_x /\ gy = stars[h].grid_y
                      /\ IF StarAt(gx, gy) THEN ch # " "
                         ELSE ch = IF BeyondRadius(gx, gy, stars[h].grid_x,
                                                   stars[h].grid_y)
                                   THEN " " ELSE "."

\* a map with a star that is farther from the home star's cell than
\* radius_ly, and with cells of both kinds that hold no star
C21_Witness ==
    /\ cpc = "done"
    /\ \E h, i \in 1..Len(stars) :
          /\ stars[h].is_sol
          /\ i # h
          /\ BeyondRadius(stars[i].grid_x, stars[i].grid_y,
                          stars[h].grid_x, stars[h].grid_y)
          /\ MapAt(stars[i].grid_x, stars[i].grid_y) = "*"
    /\ \E gx, gy \in ProbeCoords : MapAt(gx, gy) = " "
    /\ \E gx, gy \in ProbeCoords : MapAt(gx, gy) = "."

\* the home star of the map is not the star the selection flagged: that one
\* fell off the map
C21_WitnessFallback ==
    /\ cpc = "done"
    /\ \E h \in 1..Len(stars) :
          stars[h].is_sol /\ stars[h].id # SelectedInput[1].id

(***************************************************************************)
(* Claims about the names                                                  *)
(***************************************************************************)
\* the Roman numeral of k, for k in 1..39
RECURSIVE RomanNumeral(_)
RomanNumeral(k) ==
    IF k = 0 THEN ""
    ELSE IF k >= 10 THEN "X" \o RomanNumeral(k - 10)
    ELSE IF k = 9 THEN "IX"
    ELSE IF k >= 5 THEN "V" \o RomanNumeral(k - 5)
    ELSE IF k = 4 THEN "IV"
    ELSE "I" \o RomanNumeral(k - 1)

LowercaseLetters == <<"a", "b", "c", "d", "e", "f", "g", "h">>

\* the primaries among the first i objects
PrimariesUpTo(i) == Cardinality({j \in 1..i : objects[j].is_moon = 0})

\* the moons of the parent of objects[i] among the first i objects
SiblingsUpTo(i) ==
    Cardinality({j \in 1..i :
        /\ objects[j].is_moon = 1
        /\ objects[j].parent_object_id = objects[i].parent_object_id})

\* C22: in a system other than the home system the k-th primary is named
\* "<system-name> <Roman numeral of k>", k counted from 1 over all the
\* primaries, unless it is an asteroid, which is named "<system-name>
\* Asteroid"; the j-th moon of a parent is named "<parent-name>-" and the
\* j-th lowercase letter; and no object has an empty name.
C22_Names ==
    /\ \A k \in 1..Len(roman) : roman[k] = RomanNumeral(k)
    /\ (gpc = "returned" /\ system_id # 0) =>
        \A i \in 1..Len(objects) :
            LET obj == objects[i]
            IN  /\ obj.name # <<>>
                /\ \A part \in 1..Len(obj.name) : obj.name[part] # ""
                /\ (obj.is_moon = 0 /\ obj.class # "AS") =>
                      obj.name = <<system_name,
                                   RomanNumeral(PrimariesUpTo(i))>>
                /\ (obj.is_moon = 0 /\ obj.class = "AS") =>
                      obj.name = <<system_name, "Asteroid">>
                /\ obj.is_moon = 1 =>
                      obj.name = objects[obj.parent_object_id + 1].name
                                   \o <<"-", LowercaseLetters[SiblingsUpTo(i)]>>

\* an asteroid is followed by a planet, which has the numeral II, and a
\* parent has a second moon
C22_Witness ==
    /\ gpc = "returned"
    /\ system_id # 0
    /\ Len(objects) >= 4
    /\ objects[1].class = "AS"
    /\ objects[2].name = <<system_name, "II">>
    /\ \E i \in 1..Len(objects) :
          objects[i].is_moon = 1 /\ objects[i].name[Len(objects[i].name)] = "b"

(***************************************************************************)
(* Claims about the asteroid                                               *)
(***************************************************************************)
Asteroids == {i \in 1..Len(objects) : objects[i].class = "AS"}

\* C23: in a system other than the home system at most one object has the
\* class AS, an AS object is a primary, a system with fewer than two
\* primaries has no AS object, and a system with an asteroid has a primary
\* that is not an asteroid.
C23_OneAsteroid ==
    (gpc # "idle" /\ system_id # 0) =>
        /\ Cardinality(Asteroids) <= 1
        /\ \A i \in Asteroids :
              objects[i].is_moon = 0 /\ objects[i].parent_object_id = None
        /\ PrimaryCount < 2 => Asteroids = {}
        /\ Asteroids # {} =>
              \E i \in 1..Len(objects) :
                  objects[i].is_moon = 0 /\ objects[i].class # "AS"

\* a returned system with an asteroid, a planet and a moon
C23_Witness ==
    /\ gpc = "returned"
    /\ system_id # 0
    /\ Asteroids # {}
    /\ \E i \in 1..Len(objects) : objects[i].is_moon = 1

\* a returned system with one primary
C23_WitnessAlone ==
    gpc = "returned" /\ system_id # 0 /\ PrimaryCount = 1 /\ Len(objects) > 1

(***************************************************************************)
(* Claims about the moons' coordinates                                     *)
(***************************************************************************)
MoonOffsets == {0 - 1, 0, 1, 2}

\* C24: a moon lies at an offset of -1, 0, 1 or 2 on each axis from the
\* coordinates its parent was given; the primaries lie on rings of radius 5
\* to 20 around (25, 25), so that the clamp to 0..49 leaves every moon where
\* the offset put it.
C24_MoonBesideParent ==
    /\ gpc = "call" =>
        \A orbit_idx \in 0..Len(LOCAL_ORBIT_RADII) :
          /\ OrbitRadius(orbit_idx) \in 5..20
          /\ \A k \in RingAngleChoices :
                LET p == RingPoint(orbit_idx, k)
                IN  /\ p[1] \in (LOCAL_CENTER_X - 20)..(LOCAL_CENTER_X + 20)
                    /\ p[2] \in (LOCAL_CENTER_Y - 20)..(LOCAL_CENTER_Y + 20)
                    /\ \A dx, dy \in MoonOffsets :
                          BesideParent(p[1], p[2], <<dx, dy>>)
                              = <<p[1] + dx, p[2] + dy>>
    /\ gpc = "returned" =>
          \A i \in 1..Len(objects) :
              objects[i].is_moon = 1 =>
                  LET parent == objects[objects[i].parent_object_id + 1]
                      d == MoonOffset(MoonDigest(system_id,
                                                 objects[i].object_id))
                  IN  /\ objects[i].local_x - parent.local_x \in MoonOffsets
                      /\ objects[i].local_y - parent.local_y \in MoonOffsets
                      /\ objects[i].local_x = parent.local_x + d[1]
                      /\ objects[i].local_y = parent.local_y + d[2]

\* two moons of one parent, at two places
C24_Witness ==
    /\ gpc = "returned"
    /\ \E i, j \in 1..Len(objects) :
          /\ i # j
          /\ objects[i].is_moon = 1
          /\ objects[j].is_moon = 1
          /\ objects[i].parent_object_id = objects[j].parent_object_id
          /\ <<objects[i].local_x, objects[i].local_y>>
                # <<objects[j].local_x, objects[j].local_y>>

\* the moon of the home system
C24_WitnessHome ==
    /\ gpc = "returned"
    /\ system_id = 0
    /\ \E i \in 1..Len(objects) : objects[i].is_moon = 1

(***************************************************************************)
(* Claims about the attributes                                             *)
(***************************************************************************)
\* int.from_bytes(h_bytes[:4], "big")
H32(b4) == ((b4[1] * 256 + b4[2]) * 256 + b4[3]) * 256 + b4[4]

KnownClasses == {"RP", "DP", "IC", "GG", "RM", "IM", "AS"}

KnownLetters == {"O", "B", "A", "F", "G", "K", "M"}

\* C25: with h the 32-bit hash of (system_id, object_id, class),
\* habitability = clamp(HAB_STAR_BASE[letter] + HAB_CLASS_MOD[class] + (h mod
\* 16) - 8, 0, 100) and risk = clamp(RISK_CLASS_BASE[class] +
\* RISK_STAR_BASE[letter] + ((h div 16) mod 16) - 8, 0, 100), the baselines
\* of a letter outside O, B, A, F, G, K, M being 30 and 0; and the four
\* attributes of a generated object are those of its system_id, object_id,
\* class and spectral letter, whatever the seed, its name, its parent and
\* the other objects.
C25_AttributeFormulas ==
    /\ (apc = "returned" /\ attr_args.obj_class \in KnownClasses) =>
          LET h == H32(attr_digest)
              letter == parse_spectral_letter(attr_args.spect)
              hab_star == IF letter \in KnownLetters
                          THEN HabStarBase(letter) ELSE 30
              risk_star == IF letter \in KnownLetters
                           THEN RiskStarBase(letter) ELSE 0
              hab == hab_star + HabClassMod(attr_args.obj_class)
                        + (h % 16) - 8
              risk == RiskClassBase(attr_args.obj_class) + risk_star
                        + ((h \div 16) % 16) - 8
          IN  /\ attr_result.habitability =
                    (IF hab < 0 THEN 0 ELSE IF hab > 100 THEN 100 ELSE hab)
              /\ attr_result.risk =
                    (IF risk < 0 THEN 0 ELSE IF risk > 100 THEN 100 ELSE risk)
    /\ gpc = "returned" =>
          \A i \in 1..Len(objects) :
              LET obj == objects[i]
                  a == compute_attributes(system_id, obj.object_id, obj.class,
                                          <<parse_spectral_letter(spect)>>)
              IN  /\ obj.habitability = a.habitability
                  /\ obj.risk = a.risk
                  /\ obj.ore_richness = a.ore_richness
                  /\ obj.fuel_richness = a.fuel_richness

\* a rocky planet of a star whose letter is D: the two jitters differ and no
\* clamp acts
C25_Witness ==
    /\ apc = "returned"
    /\ attr_args.obj_class = "RP"
    /\ parse_spectral_letter(attr_args.spect) = "D"
    /\ LowNibble(attr_digest) = 15
    /\ HighNibble(attr_digest) = 0
    /\ attr_result.habitability = 30 + 30 + 7
    /\ attr_result.risk = 40 + 0 - 8

\* a generated system with a moon, an asteroid and a seed that is not 0
C25_WitnessObjects ==
    /\ gpc = "returned"
    /\ global_seed # 0
    /\ system_id # 0
    /\ \E i \in 1..Len(objects) : objects[i].is_moon = 1
    /\ \E i \in 1..Len(objects) : objects[i].class = "AS"

Bytes == 0..255

\* C26: for every class the ore tier does not decrease when hash bits 8 to
\* 15 grow, nor the fuel tier when hash bits 16 to 23 grow; a GG object has
\* fuel_richness 2 when the fuel byte is below 128 and 3 otherwise; every
\* other class takes each of the fuel tiers 0, 1, 2 and 3.
C26_MonotoneTiers ==
    /\ apc = "call" =>
          LET c == attr_args.obj_class
          IN  /\ \A b \in Bytes \ {255} :
                    /\ OreTier(c, b) <= OreTier(c, b + 1)
                    /\ FuelTier(c, b) <= FuelTier(c, b + 1)
              /\ c = "GG" =>
                    \A b \in Bytes : FuelTier(c, b) \in {2, 3}
              /\ c # "GG" =>
                    \A t \in 0..3 : \E b \in Bytes : FuelTier(c, b) = t
    /\ apc = "returned" =>
          LET c == attr_args.obj_class
              o == (H32(attr_digest) \div 256) % 256
              f == (H32(attr_digest) \div 65536) % 256
          IN  /\ attr_result.ore_richness = OreTier(c, o)
              /\ attr_result.fuel_richness = FuelTier(c, f)
              /\ c = "GG" =>
                    attr_result.fuel_richness = (IF f < 128 THEN 2 ELSE 3)

\* a gas giant whose fuel byte is the last one below 128
C26_Witness ==
    /\ apc = "returned"
    /\ attr_args.obj_class = "GG"
    /\ FuelByte(attr_digest) = 127
    /\ attr_result.fuel_richness = 2

\* an icy moon with fuel tier 0 and ore tier 3
C26_WitnessMoon ==
    /\ apc = "returned"
    /\ attr_args.obj_class = "IM"
    /\ attr_result.fuel_richness = 0
    /\ attr_result.ore_richness = 3

(***************************************************************************)
(* phase_2_alien_artifacts.py.  A 32-bit value is the pair of its high and *)
(* low 16 bits.                                                            *)
(***************************************************************************)
MaxObjectRows == 2

ELIGIBLE_CLASSES == {"RP", "DP", "IC", "RM", "IM", "AS"}

ARTIFACT_TYPES ==
    <<<<"ARC", 40>>, <<"RUI", 25>>, <<"FAC", 15>>, <<"BEA", 10>>,
      <<"ENG", 7>>, <<"TEC", 3>>>>

Half == 65536

\* h % m for h = <<high, low>>
ModOf(h, m) == ((h[1] % m) * (Half % m) + (h[2] % m)) % m

\* the loop `acc += weight; if r < acc: return code`, and behind it the
\* return of the last code; `fell` tells which of the two returned
RECURSIVE ArtifactLoop(_, _, _)
ArtifactLoop(i, acc, r) ==
    IF i > Len(ARTIFACT_TYPES)
    THEN [code |-> ARTIFACT_TYPES[Len(ARTIFACT_TYPES)][1], fell |-> TRUE]
    ELSE IF r < acc + ARTIFACT_TYPES[i][2]
    THEN [code |-> ARTIFACT_TYPES[i][1], fell |-> FALSE]
    ELSE ArtifactLoop(i + 1, acc + ARTIFACT_TYPES[i][2], r)

\* a loop with `r <= acc` for its test
RECURSIVE ArtifactLoopInclusive(_, _, _)
ArtifactLoopInclusive(i, acc, r) ==
    IF i > Len(ARTIFACT_TYPES)
    THEN [code |-> ARTIFACT_TYPES[Len(ARTIFACT_TYPES)][1], fell |-> TRUE]
    ELSE IF r <= acc + ARTIFACT_TYPES[i][2]
    THEN [code |-> ARTIFACT_TYPES[i][1], fell |-> FALSE]
    ELSE ArtifactLoopInclusive(i + 1, acc + ARTIFACT_TYPES[i][2], r)

ArtifactChoiceInclusive(h) ==
    ArtifactLoopInclusive(1, 0, ModOf(h, SumWeights(ARTIFACT_TYPES)))

\* choose_artifact_type with the way it returned
ArtifactChoice(h) == ArtifactLoop(1, 0, ModOf(h, SumWeights(ARTIFACT_TYPES)))

choose_artifact_type(h) == ArtifactChoice(h).code

\* (row.get("class") or "").strip().upper(), for the class columns of
\* ClassColumnChoices
StripUpper(cls) ==
    CASE cls = "rp" -> "RP"
      [] cls = " im " -> "IM"
      [] cls = " " -> ""
      [] OTHER -> cls

\* SHA-256 is not computed: h[:4] and h[4:8] of the digest of the key
\* f"{seed}:{sid}:{oid}:artifact" are taken from two tables by one fixed
\* function of the key.  The h_main of the third entry is the largest below
\* 0.02 * 2^32, that of the fourth the next one.
MainTable ==
    <<<<0, 0>>, <<655, 23592>>, <<1310, 47185>>, <<1310, 47186>>,
      <<32767, 65535>>, <<32768, 0>>, <<50000, 7>>, <<65535, 65535>>>>

ExtraTable ==
    <<<<0, 39>>, <<0, 40>>, <<1, 28>>, <<65535, 65535>>,
      <<0, 79>>, <<7, 44>>, <<0, 96>>, <<0, 97>>>>

KeyIndex(seed, sid, oid) == ((seed * 4 + sid * 2 + oid) % Len(MainTable)) + 1

\* the test `p <= rate`
BelowOrAtRate(h_main, rate) ==
    LET q1 == (rate.num * Half) \div rate.den
        r1 == (rate.num * Half) % rate.den
        q2 == (r1 * Half) \div rate.den
    IN  \/ h_main[1] < q1
        \/ h_main[1] = q1 /\ h_main[2] <= q2

\* p = h_main / 2**32 and `p < rate`, for rate = num/den: h_main is compared
\* with rate * 2^32 = q1 * 2^16 + q2 + (a fraction that is 0 or not)
BelowRate(h_main, rate) ==
    LET q1 == (rate.num * Half) \div rate.den
        r1 == (rate.num * Half) % rate.den
        q2 == (r1 * Half) \div rate.den
        r2 == (r1 * Half) % rate.den
    IN  \/ h_main[1] < q1
        \/ h_main[1] = q1 /\ (h_main[2] < q2 \/ (h_main[2] = q2 /\ r2 > 0))

\* the key of a row
ArtifactKey(seed, row) == KeyIndex(seed, row.system_id, row.object_id)

\* the body of the loop `for row in rows`
ProcessRow(row, rate, seed) ==
    LET cls == StripUpper(row.class)
        h_main == MainTable[ArtifactKey(seed, row)]
        h_more == ExtraTable[ArtifactKey(seed, row)]
        eligible == cls \in ELIGIBLE_CLASSES
    IN  IF ~eligible
        THEN [system_id |-> row.system_id, object_id |-> row.object_id,
              class |-> row.class, artifact_flag |-> "0",
              artifact_type |-> ""]
        ELSE IF BelowRate(h_main, rate)
        THEN [system_id |-> row.system_id, object_id |-> row.object_id,
              class |-> row.class, artifact_flag |-> "1",
              artifact_type |-> choose_artifact_type(h_more)]
        ELSE [system_id |-> row.system_id, object_id |-> row.object_id,
              class |-> row.class, artifact_flag |-> "0",
              artifact_type |-> ""]

\* the rows process_file writes
process_file(rows, rate, seed) ==
    [i \in 1..Len(rows) |-> ProcessRow(rows[i], rate, seed)]

(***************************************************************************)
(* The inputs of phase 2                                                   *)
(***************************************************************************)
\* every remainder of 100 under three high halves, and the largest value
HExtraChoices ==
    {<<hi, lo>> : hi \in {0, 1, Half - 1}, lo \in 0..99}
        \cup {<<Half - 1, Half - 1>>}

ClassColumnChoices == {"RP", "GG", "rp", " im ", " ", "XX"}

\* rows of two systems, eligible and not; the other spellings of the class
\* column on one object only
ObjectRowKinds ==
    {k \in [system_id : {1, 2}, object_id : {0, 1},
            class : ClassColumnChoices] :
        k.class \notin {"RP", "GG"} => (k.system_id = 1 /\ k.object_id = 0)}

\* --artifact-rate: 0, the default 0.02, 1/2, 1 and a rate that main refuses
RateChoices ==
    {[num |-> 0, den |-> 1], [num |-> 1, den |-> 50], [num |-> 1, den |-> 2],
     [num |-> 1, den |-> 1], [num |-> 3, den |-> 2]}

ArtifactSeedChoices == {0, 1}

InitChoose ==
    /\ CatalogIdle
    /\ GeneratorIdle
    /\ AttributesIdle
    /\ SystemsIdle
    /\ LoaderIdle
    /\ GenMainIdle
    /\ tpc = "call"
    /\ h_extra \in HExtraChoices
    /\ art_type = ""
    /\ object_file = [header |-> FALSE, rows |-> <<>>]
    /\ artifact_runs = <<>>

\* two runs on one input file, each with its own rate and seed
InitProcess ==
    /\ CatalogIdle
    /\ GeneratorIdle
    /\ AttributesIdle
    /\ SystemsIdle
    /\ LoaderIdle
    /\ GenMainIdle
    /\ tpc = "idle"
    /\ h_extra = <<0, 0>>
    /\ art_type = ""
    /\ \/ object_file = [header |-> FALSE, rows |-> <<>>]
       \/ \E rows \in UNION {[1..n -> ObjectRowKinds] : n \in 0..MaxObjectRows} :
             object_file = [header |-> TRUE, rows |-> rows]
    /\ \E r1, r2 \in RateChoices, s1, s2 \in ArtifactSeedChoices :
          artifact_runs =
              <<[pc |-> "start", rate |-> r1, seed |-> s1, out_rows |-> NotOpened],
                [pc |-> "start", rate |-> r2, seed |-> s2, out_rows |-> NotOpened]>>

InitArtifacts == InitChoose \/ InitProcess

ChooseType ==
    /\ tpc = "call"
    /\ art_type' = choose_artifact_type(h_extra)
    /\ tpc' = "returned"
    /\ UNCHANGED <<h_extra, object_file, artifact_runs, catVars, genVars,
                   attrVars, sysVars, loadVars, mainVars>>

\* main: if not (0.0 <= args.artifact_rate <= 1.0): raise SystemExit
CheckRate(i) ==
    /\ artifact_runs[i].pc = "start"
    /\ LET rate == artifact_runs[i].rate
       IN  artifact_runs' = [artifact_runs EXCEPT ![i].pc =
               IF 0 <= rate.num /\ rate.num <= rate.den
               THEN "process" ELSE "exit_rate"]
    /\ UNCHANGED <<tpc, h_extra, art_type, object_file, catVars, genVars,
                   attrVars, sysVars, loadVars, mainVars>>

\* process_file: SystemExit on a file without a header, else every row is
\* given its two columns and the output file is written
ProcessFile(i) ==
    /\ artifact_runs[i].pc = "process"
    /\ LET run == artifact_runs[i]
       IN  artifact_runs' = [artifact_runs EXCEPT ![i] =
              IF ~object_file.header
              THEN [run EXCEPT !.pc = "exit_no_header"]
              ELSE [run EXCEPT
                      !.pc = "done",
                      !.out_rows = [opened |-> TRUE,
                                    rows |-> process_file(object_file.rows,
                                                          run.rate, run.seed)]]]
    /\ UNCHANGED <<tpc, h_extra, art_type, object_file, catVars, genVars,
                   attrVars, sysVars, loadVars, mainVars>>

NextArtifacts ==
    \/ ChooseType
    \/ \E i \in 1..Len(artifact_runs) : CheckRate(i)
    \/ \E i \in 1..Len(artifact_runs) : ProcessFile(i)

SpecArtifacts == InitArtifacts /\ [][NextArtifacts]_vars

(***************************************************************************)
(* Claims about the artifacts                                              *)
(***************************************************************************)
DoneRuns == {i \in 1..Len(artifact_runs) : artifact_runs[i].pc = "done"}

Written(i) == artifact_runs[i].out_rows.rows

ArtifactCodes == {ARTIFACT_TYPES[k][1] : k \in 1..Len(ARTIFACT_TYPES)}

\* C27: the artifact_flag and the artifact_type of a row depend on its
\* system_id, object_id and class alone: two rows with the same three get
\* the same flag and type in every run, whatever the rate and the seed.
C27_SameObjectSameArtifact ==
    \A a, b \in DoneRuns :
        \A i \in 1..Len(Written(a)), j \in 1..Len(Written(b)) :
            (/\ Written(a)[i].system_id = Written(b)[j].system_id
             /\ Written(a)[i].object_id = Written(b)[j].object_id
             /\ Written(a)[i].class = Written(b)[j].class) =>
                /\ Written(a)[i].artifact_flag = Written(b)[j].artifact_flag
                /\ Written(a)[i].artifact_type = Written(b)[j].artifact_type

\* C28: with r = h_extra mod 100 choose_artifact_type returns ARC for r in
\* 0..39, RUI for 40..64, FAC for 65..79, BEA for 80..89, ENG for 90..96 and
\* TEC for 97..99, never by the return behind its loop; process_file writes
\* the flag '1' exactly with one of the six codes, and the flag '0' with an
\* empty type for every row whose class is not RP, DP, IC, RM, IM or AS.
C28_ArtifactTypes ==
    /\ tpc = "returned" =>
          LET r == ((h_extra[1] % 100) * 36 + h_extra[2]) % 100
          IN  /\ art_type = (IF r <= 39 THEN "ARC"
                             ELSE IF r <= 64 THEN "RUI"
                             ELSE IF r <= 79 THEN "FAC"
                             ELSE IF r <= 89 THEN "BEA"
                             ELSE IF r <= 96 THEN "ENG" ELSE "TEC")
              /\ ~ArtifactChoice(h_extra).fell
    /\ \A a \in DoneRuns :
          \A i \in 1..Len(Written(a)) :
              LET row == Written(a)[i]
              IN  /\ row.artifact_flag \in {"0", "1"}
                  /\ row.artifact_flag = "1" <=> row.artifact_type \in ArtifactCodes
                  /\ row.artifact_flag = "0" => row.artifact_type = ""
                  /\ StripUpper(row.class) \notin
                        {"RP", "DP", "IC", "RM", "IM", "AS"} =>
                          row.artifact_flag = "0" /\ row.artifact_type = ""

\* the largest h_extra, 2^32 - 1, whose remainder is 95
C28_Witness ==
    /\ tpc = "returned"
    /\ h_extra = <<Half - 1, Half - 1>>
    /\ art_type = "ENG"

\* a run at rate 1 over a gas giant and a rocky planet
C28_WitnessRun ==
    \E a \in DoneRuns :
        /\ artifact_runs[a].rate = [num |-> 1, den |-> 1]
        /\ \E i, j \in 1..Len(Written(a)) :
              /\ Written(a)[i].class = "GG"
              /\ Written(a)[i].artifact_flag = "0"
              /\ Written(a)[j].class = "RP"
              /\ Written(a)[j].artifact_flag = "1"

RateLeq(r1, r2) == r1.num * r2.den <= r2.num * r1.den

\* C29: with one seed and one input every object flagged at a rate r1 is
\* flagged, with the same artifact_type, at every rate r2 >= r1; no object
\* is flagged at rate 0, and every object of an eligible class is at rate 1.
C29_MonotoneInRate ==
    /\ \A a, b \in DoneRuns :
          (/\ artifact_runs[a].seed = artifact_runs[b].seed
           /\ RateLeq(artifact_runs[a].rate, artifact_runs[b].rate)) =>
              \A i \in 1..Len(Written(a)) :
                  Written(a)[i].artifact_flag = "1" =>
                      /\ Written(b)[i].artifact_flag = "1"
                      /\ Written(b)[i].artifact_type
                            = Written(a)[i].artifact_type
    /\ \A a \in DoneRuns :
          /\ artifact_runs[a].rate.num = 0 =>
                \A i \in 1..Len(Written(a)) :
                    Written(a)[i].artifact_flag = "0"
          /\ artifact_runs[a].rate.num = artifact_runs[a].rate.den =>
                \A i \in 1..Len(Written(a)) :
                    StripUpper(Written(a)[i].class) \in ELIGIBLE_CLASSES =>
                        Written(a)[i].artifact_flag = "1"

\* two runs with one seed: at 0.02 one object of two is flagged, at 1/2 both
C29_Witness ==
    \E a, b \in DoneRuns :
        /\ artifact_runs[a].seed = artifact_runs[b].seed
        /\ artifact_runs[a].rate = [num |-> 1, den |-> 50]
        /\ artifact_runs[b].rate = [num |-> 1, den |-> 2]
        /\ \E i, j \in 1..Len(Written(a)) :
              /\ Written(a)[i].artifact_flag = "1"
              /\ Written(a)[j].artifact_flag = "0"
              /\ Written(b)[j].artifact_flag = "1"

\* a run at rate 1 whose object with the largest h_main is flagged
C29_WitnessAll ==
    \E a \in DoneRuns :
        /\ artifact_runs[a].rate.num = artifact_runs[a].rate.den
        /\ \E i \in 1..Len(Written(a)) :
              /\ MainTable[ArtifactKey(artifact_runs[a].seed, Written(a)[i])]
                    = <<Half - 1, Half - 1>>
              /\ Written(a)[i].artifact_flag = "1"

(***************************************************************************)
(* Claims about the home system and the budget                             *)
(***************************************************************************)
MoonTotal == Cardinality({i \in 1..Len(objects) : objects[i].is_moon = 1})

\* C30: the home system takes no account of the budget: for system_id = 0
\* three primaries and one moon are returned for every max_primaries, also
\* below 3 and at or below 0; for every other system_id the primaries
\* returned are at most max_primaries.
C30_HomeIgnoresBudget ==
    gpc = "returned" =>
        IF system_id = 0
        THEN PrimaryCount = 3 /\ MoonTotal = 1
        ELSE PrimaryCount <= (IF max_primaries > 0 THEN max_primaries ELSE 0)

\* the home system returned with max_primaries at or below 0
C30_Witness ==
    /\ gpc = "returned"
    /\ system_id = 0
    /\ max_primaries <= 0
    /\ PrimaryCount > max_primaries
    /\ Len(objects) = 4

\* the home system returned with a max_primaries of 1 or 2
C30_WitnessBelowThree ==
    /\ gpc = "returned"
    /\ system_id = 0
    /\ max_primaries \in 1..2
    /\ PrimaryCount = 3

====
